---- MODULE Spec2Model ----
(***************************************************************************)
(* Verification model of onosproject/topo-discovery.                       *)
(*                                                                         *)
(* Part 1 (specification Spec): the lifecycle controller of                *)
(* pkg/controller: the run goroutine, the full discovery sweep, the watch  *)
(* reader goroutines, the dispatch queues, the discovery workers with the  *)
(* workingOn set, Stop() and the northbound seeding calls.                 *)
(*                                                                         *)
(* Part 2 (specifications SpecLinks, SpecPorts, SpecPass): one discovery   *)
(* pass of a worker for a device, step by step: the port reconciler, the   *)
(* link reconciler with agentDevices and pendingLinks, the link monitor    *)
(* callbacks, against the catalog's entities and relations.  In part 1 the *)
(* whole pass is one step of the worker (FinishWork).                      *)
(*                                                                         *)
(* Every goroutine is a process with a program counter; one action is one  *)
(* step between two points where the goroutine touches shared state (the   *)
(* state under c.lock, a channel, the catalog).                            *)
(***************************************************************************)
EXTENDS Integers, Sequences, FiniteSets, Bags, TLC

\* ------------------------------------------------------------------ bounds
\* capacity of the dispatch channels (queueDepth is 128 in the code)
QueueDepth == 2
\* number of discover goroutines (workerCount is 16 in the code)
WorkerCount == 2
\* number of discoverNeighbor goroutines
NeighborWorkerCount == 1
\* how many catalog / stream calls may fail in one behaviour
MaxFaults == 1

\* passes a worker makes for one device in one behaviour
MaxPasses == 2
\* consecutive passes over one device in SpecPass
MaxRuns == 3
\* range of the clocks (controller wall clock, device create-times)
MaxNow == 2
\* changes of a device's ports and links in one behaviour of SpecPass
MaxEvents == 2
\* link events a device's agent sends to its monitor in one behaviour
MaxNotices == 1

\* ------------------------------------------------------------ environment
\* device entities the realm selector can match, in catalog stream order
DeviceOrder == <<"d1", "d2">>
Devices == {DeviceOrder[i] : i \in 1..Len(DeviceOrder)}
\* device entities the neighbor realm selector can match
NeighborDevices == {"n1"}
\* whether neighbor realm options are configured (hasNeighborRealmOptions)
HasNeighborRealm == TRUE

States == {"Disconnected", "Connected", "Initialized", "Monitoring", "Stopped"}

\* Goroutines that run the same code are interchangeable, so each pool is kept
\* as a count per situation: the pool (q), the position (pc) and the object
\* in hand (obj).
ReaderKinds ==
  [q : {"realm", "neighbor"}, pc : {"chk", "recv"}, obj : {"none"}]
    \cup [q : {"realm"}, pc : {"send"}, obj : Devices]
    \cup [q : {"neighbor"}, pc : {"send"}, obj : NeighborDevices]
WorkerKinds ==
  [q : {"realm", "neighbor"}, pc : {"recv", "exit"}, obj : {"none"}]
    \cup [q : {"realm"}, pc : {"chk", "work"}, obj : Devices]
    \cup [q : {"neighbor"}, pc : {"chk", "work"}, obj : NeighborDevices]
NewReader(q) == [q |-> q, pc |-> "chk", obj |-> "none"]
IdleWorker(q) == [q |-> q, pc |-> "recv", obj |-> "none"]
Spawn(rs, r) == [rs EXCEPT ![r] = @ + 1]
Leave(rs, r) == [rs EXCEPT ![r] = @ - 1]
Move(rs, r, r2) == Spawn(Leave(rs, r), r2)

VARIABLES
  state,               \* Controller.state
  runPc,               \* position of the run() goroutine
  sweepLeft,           \* query results not yet received by the sweep in progress
  sweepRet,            \* caller of runFullDiscoverySweep: "init" or "mon"
  readers,             \* the watch reader goroutines started by monitorRealm
  realmQueue,          \* Controller.realmQueue (buffered channel)
  neighborRealmQueue,  \* Controller.neighborRealmQueue (buffered channel)
  closed,              \* the dispatch channels have been closed by Stop()
  workingOn,           \* Controller.workingOn (its key set)
  workers,             \* the discover / discoverNeighbor goroutines
  crashed,             \* an unrecovered panic has ended the process
  faults,              \* failed calls so far
  apiCall,             \* the last northbound seeding call and its outcome
  realmEntities        \* the catalog's device entities matching the realm filter

ctlVars == <<state, runPc, sweepLeft, sweepRet, readers, realmQueue,
             neighborRealmQueue, closed, workingOn, workers, crashed, faults,
             apiCall, realmEntities>>

\* the controller state the reconcilers do not touch
ctlRest == <<state, runPc, sweepLeft, sweepRet, readers, realmQueue,
             neighborRealmQueue, closed, workingOn, workers, apiCall,
             realmEntities>>

VARIABLES
  agentDevices,  \* LinkReconciler.agentDevices (agent ID -> device)
  pendingLinks,  \* LinkReconciler.pendingLinks (agent ID -> parked links)
  ports,         \* catalog: port entities, by ID, with their aspect
  links,         \* catalog: link entities, by ID, with their aspect
  relations,     \* catalog: relation objects
  devPorts,      \* device: the port state its gNMI agent reports
  devLinks,      \* device: the ingress link its link agent reports
  acReport,      \* agentContext.report, shared by the pass and the monitor
  evQ,           \* link event sent by the agent, not yet received
  portQ,         \* port update sent by the device, not yet received
  deviceContexts, \* gNMIPortDiscovery.deviceContexts (device -> context)
  hosts,         \* catalog: host entities, by ID, with their aspect
  devHosts,      \* device: the hosts its host agent reports, by MAC
  devNames,      \* device: the interface name of each of its ports
  events,        \* link events emitted so far
  now,           \* the controller's wall clock
  th,            \* the goroutines of part 2: their position and locals
  passes,        \* passes completed, per device
  hist           \* record of the pass in progress and of the one before

recVars == <<agentDevices, pendingLinks, ports, links, relations, devPorts,
             devLinks, acReport, evQ, portQ, deviceContexts, hosts, devHosts,
             devNames, events, now, th, passes, hist>>

vars == <<ctlVars, recVars>>

NoCall == [op |-> "none", res |-> "none", creates |-> 0]

\* NewController and Start: state Disconnected, empty queue, workers started
InitController(entities, nRealm, nNeighbor) ==
  /\ state = "Disconnected"
  /\ runPc = "loop"
  /\ sweepLeft = <<>>
  /\ sweepRet = "init"
  /\ readers = [r \in ReaderKinds |-> 0]
  /\ realmQueue = <<>>
  /\ neighborRealmQueue = <<>>
  /\ closed = FALSE
  /\ workingOn = {}
  /\ workers = [w \in WorkerKinds |->
                  IF w = IdleWorker("realm") THEN nRealm
                  ELSE IF w = IdleWorker("neighbor") THEN nNeighbor
                  ELSE 0]
  /\ crashed = FALSE
  /\ faults = 0
  /\ apiCall = NoCall
  /\ realmEntities = entities

\* --------------------------------------------------- state under c.lock
\* setState: unconditional
setState(s) == state' = s

\* setStateIf: only if in the condition state
setStateIf(condition, s) ==
  state' = IF state = condition THEN s ELSE state

Alive == ~crashed
MayFail == faults < MaxFaults
Fault == faults' = faults + 1

\* ------------------------------------------------------- run() goroutine
\* run: read the state and dispatch on it.  The handlers for Disconnected,
\* Connected and Monitoring begin with a loop test of the same state, which
\* is folded into this read.
RunDispatch ==
  /\ Alive /\ runPc = "loop"
  /\ runPc' = CASE state = "Disconnected" -> "dial"
                [] state = "Connected" -> "sweepQ"
                [] state = "Initialized" -> "watch"
                [] state = "Monitoring" -> "monSel"
                [] OTHER -> "done"
  /\ sweepRet' = IF state = "Connected" THEN "init" ELSE sweepRet
  /\ UNCHANGED <<recVars, state, sweepLeft, readers, realmQueue, neighborRealmQueue,
                 closed, workingOn, workers, crashed, faults, apiCall, realmEntities>>

\* waitForTopoConnection: the dial succeeds, setState(Connected)
DialOk ==
  /\ Alive /\ runPc = "dial"
  /\ setState("Connected")
  /\ runPc' = "loop"
  /\ UNCHANGED <<recVars, sweepLeft, sweepRet, readers, realmQueue, neighborRealmQueue,
                 closed, workingOn, workers, crashed, faults, apiCall, realmEntities>>

\* waitForTopoConnection: the dial fails, pause and test the state again
DialFail ==
  /\ Alive /\ runPc = "dial" /\ MayFail
  /\ Fault
  /\ runPc' = "loop"
  /\ UNCHANGED <<recVars, state, sweepLeft, sweepRet, readers, realmQueue,
                 neighborRealmQueue, closed, workingOn, workers, crashed, apiCall, realmEntities>>

\* what the caller of runFullDiscoverySweep does with its result
SweepReturn(ok) ==
  /\ sweepLeft' = <<>>
  /\ runPc' = "loop"
  /\ IF sweepRet = "init" /\ ok
       THEN setState("Initialized")   \* runInitialDiscoverySweep, err == nil
       ELSE UNCHANGED state           \* pauseIf(Disconnected, ..) / result dropped

\* the realm Query streams every matching entity
QueryResult == SelectSeq(DeviceOrder, LAMBDA d : d \in realmEntities)

\* runFullDiscoverySweep: topoClient.Query succeeds
SweepQueryOk ==
  /\ Alive /\ runPc = "sweepQ"
  /\ sweepLeft' = QueryResult
  /\ runPc' = "sweepRecv"
  /\ UNCHANGED <<recVars, state, sweepRet, readers, realmQueue, neighborRealmQueue,
                 closed, workingOn, workers, crashed, faults, apiCall, realmEntities>>

\* runFullDiscoverySweep: topoClient.Query fails, the error is returned
SweepQueryFail ==
  /\ Alive /\ runPc = "sweepQ" /\ MayFail
  /\ Fault
  /\ SweepReturn(FALSE)
  /\ UNCHANGED <<recVars, sweepRet, readers, realmQueue, neighborRealmQueue,
                 closed, workingOn, workers, crashed, apiCall, realmEntities>>

\* runFullDiscoverySweep: loop test getState() != Stopped, then entities.Recv()
SweepRecv ==
  /\ Alive /\ runPc = "sweepRecv"
  /\ IF state = "Stopped" \/ sweepLeft = <<>>
       THEN SweepReturn(TRUE)         \* loop left, or io.EOF: return nil
       ELSE runPc' = "sweepSend" /\ UNCHANGED <<recVars, state, sweepLeft>>
  /\ UNCHANGED <<recVars, sweepRet, readers, realmQueue, neighborRealmQueue,
                 closed, workingOn, workers, crashed, faults, apiCall, realmEntities>>

\* runFullDiscoverySweep: entities.Recv() fails, the error is returned
SweepRecvFail ==
  /\ Alive /\ runPc = "sweepRecv" /\ state # "Stopped" /\ MayFail
  /\ Fault
  /\ SweepReturn(FALSE)
  /\ UNCHANGED <<recVars, sweepRet, readers, realmQueue, neighborRealmQueue,
                 closed, workingOn, workers, crashed, apiCall, realmEntities>>

\* runFullDiscoverySweep: c.realmQueue <- entity.Object
SweepSend ==
  /\ Alive /\ runPc = "sweepSend"
  /\ IF closed
       THEN /\ crashed' = TRUE        \* send on closed channel panics
            /\ UNCHANGED <<recVars, runPc, sweepLeft, realmQueue>>
       ELSE /\ Len(realmQueue) < QueueDepth
            /\ realmQueue' = Append(realmQueue, Head(sweepLeft))
            /\ sweepLeft' = Tail(sweepLeft)
            /\ runPc' = "sweepRecv"
            /\ UNCHANGED crashed
  /\ UNCHANGED <<recVars, state, sweepRet, readers, neighborRealmQueue, closed,
                 workingOn, workers, faults, apiCall, realmEntities>>

\* monitorRealm(realmOptions, realmQueue): Watch succeeds, go func() {...}
WatchOk ==
  /\ Alive /\ runPc = "watch"
  /\ readers' = Spawn(readers, NewReader("realm"))
  /\ runPc' = "setMon"
  /\ UNCHANGED <<recVars, state, sweepLeft, sweepRet, realmQueue, neighborRealmQueue,
                 closed, workingOn, workers, crashed, faults, apiCall, realmEntities>>

\* monitorRealm: Watch fails, setState(Disconnected)
WatchFail ==
  /\ Alive /\ runPc = "watch" /\ MayFail
  /\ Fault
  /\ setState("Disconnected")
  /\ runPc' = "prepChk"
  /\ UNCHANGED <<recVars, sweepLeft, sweepRet, readers, realmQueue, neighborRealmQueue,
                 closed, workingOn, workers, crashed, apiCall, realmEntities>>

\* monitorRealm: c.setState(Monitoring) after the reader was started
SetMonitoring ==
  /\ Alive /\ runPc = "setMon"
  /\ setState("Monitoring")
  /\ runPc' = "prepChk"
  /\ UNCHANGED <<recVars, sweepLeft, sweepRet, readers, realmQueue, neighborRealmQueue,
                 closed, workingOn, workers, crashed, faults, apiCall, realmEntities>>

\* prepareForMonitoring: if getState() == Monitoring && hasNeighborRealmOptions()
PrepareCheck ==
  /\ Alive /\ runPc = "prepChk"
  /\ runPc' = IF state = "Monitoring" /\ HasNeighborRealm THEN "watchN" ELSE "loop"
  /\ UNCHANGED <<recVars, state, sweepLeft, sweepRet, readers, realmQueue,
                 neighborRealmQueue, closed, workingOn, workers, crashed,
                 faults, apiCall, realmEntities>>

\* monitorRealm(neighborRealmOptions, neighborRealmQueue): Watch succeeds
WatchNeighborOk ==
  /\ Alive /\ runPc = "watchN"
  /\ readers' = Spawn(readers, NewReader("neighbor"))
  /\ runPc' = "setMonN"
  /\ UNCHANGED <<recVars, state, sweepLeft, sweepRet, realmQueue, neighborRealmQueue,
                 closed, workingOn, workers, crashed, faults, apiCall, realmEntities>>

\* monitorRealm for the neighbor realm: Watch fails, setState(Disconnected)
WatchNeighborFail ==
  /\ Alive /\ runPc = "watchN" /\ MayFail
  /\ Fault
  /\ setState("Disconnected")
  /\ runPc' = "loop"
  /\ UNCHANGED <<recVars, sweepLeft, sweepRet, readers, realmQueue, neighborRealmQueue,
                 closed, workingOn, workers, crashed, apiCall, realmEntities>>

\* monitorRealm for the neighbor realm: c.setState(Monitoring)
SetMonitoringNeighbor ==
  /\ Alive /\ runPc = "setMonN"
  /\ setState("Monitoring")
  /\ runPc' = "loop"
  /\ UNCHANGED <<recVars, sweepLeft, sweepRet, readers, realmQueue, neighborRealmQueue,
                 closed, workingOn, workers, crashed, faults, apiCall, realmEntities>>

\* monitorTopologyChanges: the periodic ticker fires, run a full sweep
MonitorTickSweep ==
  /\ Alive /\ runPc = "monSel"
  /\ runPc' = "sweepQ"
  /\ sweepRet' = "mon"
  /\ UNCHANGED <<recVars, state, sweepLeft, readers, realmQueue, neighborRealmQueue,
                 closed, workingOn, workers, crashed, faults, apiCall, realmEntities>>

\* monitorTopologyChanges: the check-state ticker fires, test the state again
MonitorTickCheck ==
  /\ Alive /\ runPc = "monSel"
  /\ runPc' = "loop"
  /\ UNCHANGED <<recVars, state, sweepLeft, sweepRet, readers, realmQueue,
                 neighborRealmQueue, closed, workingOn, workers, crashed,
                 faults, apiCall, realmEntities>>

\* ------------------------------------------------- watch reader goroutines
\* reader: loop test getState() == Monitoring; the goroutine ends when it fails
ReaderCheck(r) ==
  /\ Alive /\ r.pc = "chk" /\ readers[r] > 0
  /\ readers' = IF state = "Monitoring"
                  THEN Move(readers, r, [r EXCEPT !.pc = "recv"])
                  ELSE Leave(readers, r)
  /\ UNCHANGED <<recVars, state, runPc, sweepLeft, sweepRet, realmQueue,
                 neighborRealmQueue, closed, workingOn, workers, crashed,
                 faults, apiCall, realmEntities>>

\* the entities a watch of realm q reports events for
ReaderIds(q) == IF q = "realm" THEN realmEntities ELSE NeighborDevices

\* reader: stream.Recv() returns an event that isRelevant (not REMOVED)
ReaderEvent(r) ==
  /\ Alive /\ r.pc = "recv" /\ readers[r] > 0
  /\ \E id \in ReaderIds(r.q) :
       readers' = Move(readers, r, [r EXCEPT !.pc = "send", !.obj = id])
  /\ UNCHANGED <<recVars, state, runPc, sweepLeft, sweepRet, realmQueue,
                 neighborRealmQueue, closed, workingOn, workers, crashed,
                 faults, apiCall, realmEntities>>

\* reader: stream.Recv() returns a REMOVED event, which is ignored
ReaderEventRemoved(r) ==
  /\ Alive /\ r.pc = "recv" /\ readers[r] > 0
  /\ readers' = Move(readers, r, [r EXCEPT !.pc = "chk"])
  /\ UNCHANGED <<recVars, state, runPc, sweepLeft, sweepRet, realmQueue,
                 neighborRealmQueue, closed, workingOn, workers, crashed,
                 faults, apiCall, realmEntities>>

\* reader: stream.Recv() fails, c.setStateIf(Monitoring, Disconnected)
ReaderStreamError(r) ==
  /\ Alive /\ r.pc = "recv" /\ readers[r] > 0 /\ MayFail
  /\ Fault
  /\ setStateIf("Monitoring", "Disconnected")
  /\ readers' = Move(readers, r, [r EXCEPT !.pc = "chk"])
  /\ UNCHANGED <<recVars, runPc, sweepLeft, sweepRet, realmQueue, neighborRealmQueue,
                 closed, workingOn, workers, crashed, apiCall, realmEntities>>

\* reader: realmQueue <- &resp.Event.Object
ReaderSend(r) ==
  /\ Alive /\ r.pc = "send" /\ readers[r] > 0
  /\ IF closed
       THEN /\ crashed' = TRUE        \* send on closed channel panics
            /\ UNCHANGED <<recVars, readers, realmQueue, neighborRealmQueue>>
       ELSE /\ UNCHANGED crashed
            /\ readers' = Move(readers, r, NewReader(r.q))
            /\ IF r.q = "realm"
                 THEN /\ Len(realmQueue) < QueueDepth
                      /\ realmQueue' = Append(realmQueue, r.obj)
                      /\ UNCHANGED neighborRealmQueue
                 ELSE /\ Len(neighborRealmQueue) < QueueDepth
                      /\ neighborRealmQueue' = Append(neighborRealmQueue, r.obj)
                      /\ UNCHANGED realmQueue
  /\ UNCHANGED <<recVars, state, runPc, sweepLeft, sweepRet, closed, workingOn,
                 workers, faults, apiCall, realmEntities>>

\* ------------------------------------------------------ discovery workers
\* _, busy := c.workingOn[object.ID]
\* a membership test that never finds the ID
BusyNever(id) == FALSE
Busy(id) == id \in workingOn

\* discover / discoverNeighbor: for object := range queue, an object arrives
Dequeue(w) ==
  /\ Alive /\ w.pc = "recv" /\ workers[w] > 0
  /\ IF w.q = "realm"
       THEN /\ realmQueue # <<>>
            /\ workers' = Move(workers, w, [w EXCEPT !.pc = "chk", !.obj = Head(realmQueue)])
            /\ realmQueue' = Tail(realmQueue)
            /\ UNCHANGED neighborRealmQueue
       ELSE /\ neighborRealmQueue # <<>>
            /\ workers' = Move(workers, w, [w EXCEPT !.pc = "chk", !.obj = Head(neighborRealmQueue)])
            /\ neighborRealmQueue' = Tail(neighborRealmQueue)
            /\ UNCHANGED realmQueue
  /\ UNCHANGED <<recVars, state, runPc, sweepLeft, sweepRet, readers, closed,
                 workingOn, crashed, faults, apiCall, realmEntities>>

\* discover / discoverNeighbor: the range loop ends on a closed, drained channel
WorkerExit(w) ==
  /\ Alive /\ w.pc = "recv" /\ workers[w] > 0 /\ closed
  /\ IF w.q = "realm" THEN realmQueue = <<>> ELSE neighborRealmQueue = <<>>
  /\ workers' = Move(workers, w, [w EXCEPT !.pc = "exit"])
  /\ UNCHANGED <<recVars, state, runPc, sweepLeft, sweepRet, readers, realmQueue,
                 neighborRealmQueue, closed, workingOn, crashed, faults,
                 apiCall, realmEntities>>

\* discover / discoverNeighbor: the section under c.lock that tests and marks
\* workingOn; a busy object is dropped
CheckBusy(w) ==
  /\ Alive /\ w.pc = "chk" /\ workers[w] > 0
  /\ IF Busy(w.obj)
       THEN /\ workers' = Move(workers, w, IdleWorker(w.q))
            /\ UNCHANGED workingOn
       ELSE /\ workingOn' = workingOn \cup {w.obj}
            /\ workers' = Move(workers, w, [w EXCEPT !.pc = "work"])
  /\ UNCHANGED <<recVars, state, runPc, sweepLeft, sweepRet, readers, realmQueue,
                 neighborRealmQueue, closed, crashed, faults, apiCall,
                 realmEntities>>

\* discover: DiscoverPorts, DiscoverLinks and DiscoverHosts return (with or
\* without errors, which they only log), then delete(c.workingOn, object.ID)
\* under c.lock.  discoverNeighbor: the same around RegisterAgent.
FinishWork(w) ==
  /\ Alive /\ w.pc = "work" /\ workers[w] > 0
  /\ workingOn' = workingOn \ {w.obj}
  /\ workers' = Move(workers, w, IdleWorker(w.q))
  /\ UNCHANGED <<recVars, state, runPc, sweepLeft, sweepRet, readers, realmQueue,
                 neighborRealmQueue, closed, crashed, faults, apiCall,
                 realmEntities>>

\* discover: DiscoverLinks reaches updateDownedLinks and its port Query fails;
\* the error is logged, stream is nil and stream.Recv() panics
WorkerLinksPanic(w) ==
  /\ Alive /\ w.q = "realm" /\ w.pc = "work" /\ workers[w] > 0
  /\ crashed' = TRUE
  /\ UNCHANGED <<recVars, state, runPc, sweepLeft, sweepRet, readers, realmQueue,
                 neighborRealmQueue, closed, workingOn, workers, apiCall,
                 faults, realmEntities>>

\* ------------------------------------------------------------------ Stop
\* Stop: setState(Stopped); close(queue).  The manager calls it once.
Stop ==
  /\ Alive /\ ~closed
  /\ setState("Stopped")
  /\ closed' = TRUE
  /\ UNCHANGED <<recVars, runPc, sweepLeft, sweepRet, readers, realmQueue,
                 neighborRealmQueue, workingOn, workers, crashed, faults, apiCall, realmEntities>>

\* ------------------------------------------------- northbound seeding API
\* if c.getState() != Monitoring { return errors.NewUnavailable(...) }
\* a readiness test that refuses only while Disconnected
NotReadyDisconnected == state = "Disconnected"
NotReady == state # "Monitoring"

\* A seeding call that issues up to n catalog Create requests in sequence and
\* returns the first error: k requests are issued, the call succeeds if all n
\* were issued and the last one succeeded.
Seed(op, n) ==
  /\ Alive
  /\ IF NotReady
       THEN apiCall' = [op |-> op, res |-> "Unavailable", creates |-> 0]
       ELSE \E k \in 1..n : \E ok \in BOOLEAN :
              /\ k < n => ~ok
              /\ apiCall' = [op |-> op, res |-> IF ok THEN "OK" ELSE "Error",
                             creates |-> k]
  /\ UNCHANGED <<recVars, state, runPc, sweepLeft, sweepRet, readers, realmQueue,
                 neighborRealmQueue, closed, workingOn, workers, crashed,
                 faults, realmEntities>>

\* AddPod: createEntity
AddPod == Seed("AddPod", 1)
\* AddRack: createEntity, createRelation
AddRack == Seed("AddRack", 2)
\* AddSwitch: createEntity, createRelation
AddSwitch == Seed("AddSwitch", 2)
\* AddServerIPU: createEntity, createRelation, createEntity, createRelation
AddServerIPU == Seed("AddServerIPU", 4)

\* ================================================================ part 2
\* ------------------------------------------------------ catalog and devices
\* link agent IDs, as returned by state/agent-id of each device
Agents == {"a1", "a2"}
AgentID == [d \in Devices |-> IF d = "d1" THEN "a1" ELSE "a2"]
\* the device whose link agent has the given ID
DeviceOf(a) == CHOOSE d \in Devices : AgentID[d] = a
PortNums == {1}
\* fmt.Sprintf("%s/%d", device.ID, number)
PortID(d, n) == d \o "/" \o ToString(n)
PortIds == {PortID(d, n) : d \in Devices, n \in PortNums}
\* fmt.Sprintf("%s-%s", egressPortID, ingressPortID)
LinkID(egressPortID, ingressPortID) == egressPortID \o "-" \o ingressPortID
\* the numbers of the ports a link can leave a device from
EgressPortNums == {1, 2}
EgressPortIds == {PortID(d, n) : d \in Devices, n \in EgressPortNums}
LinkIds == {LinkID(e, i) : e \in EgressPortIds, i \in PortIds}
Times == 1..MaxNow

\* southbound.Link
NoLink == [IngressDevice |-> "", IngressPort |-> 0, EgressDevice |-> "",
           EgressPort |-> 0, CreateTime |-> 0]
Link(ia, ip, ea, ep, ct) ==
  [IngressDevice |-> ia, IngressPort |-> ip, EgressDevice |-> ea,
   EgressPort |-> ep, CreateTime |-> ct]
\* the ingress links a device can report: from a port of the other device
DeviceLinksFrom(d, egressPorts) ==
  {Link(AgentID[d], ip, AgentID[e], ep, ct) :
     ip \in PortNums, e \in Devices \ {d}, ep \in egressPorts, ct \in Times}
DeviceLinks(d) == DeviceLinksFrom(d, PortNums)
\* southbound.LinkReport; agentContext.report is nil before the first one
LinkReport(a, ls) == [AgentID |-> a, Links |-> ls]
NoLinks == [n \in PortNums |-> NoLink]
NilReport == LinkReport("", NoLinks)

\* southbound.Host: a host network interface seen on a port of the device
Macs == {"m1", "m2"}
HostIP == [m \in Macs |-> IF m = "m1" THEN "10.0.0.1" ELSE "10.0.0.2"]
NoHost == [MAC |-> "", IP |-> "", Port |-> 0]
Host(mac, port) == [MAC |-> mac, IP |-> HostIP[mac], Port |-> port]
AllHosts == {Host(m, n) : m \in Macs, n \in PortNums}
\* what a host agent reports: the port of each MAC it sees, 0 for none
NoHosts == [m \in Macs |-> 0]
\* HostReport.Hosts
ReportedHosts(seen) == {Host(m, seen[m]) : m \in {x \in Macs : seen[x] # 0}}
\* host.MAC + "/" + strconv.FormatUint(uint64(host.Port), 10)
HostID(host) == host.MAC \o "/" \o ToString(host.Port)
\* the identifier <agentID>/<port>/<MAC>
AgentHostID(agent, host) ==
  agent \o "/" \o ToString(host.Port) \o "/" \o host.MAC
\* the host identifiers the catalog is asked about
HostIds ==
  {HostID(Host(m, n)) : m \in Macs, n \in PortNums}
    \cup {AgentHostID(a, Host(m, n)) : a \in Agents, m \in Macs, n \in PortNums}
\* topo.NetworkInterface of a host entity
NoHostEntity == [MacDevicePort |-> "", Ip |-> ""]
NetworkInterface(host) == [MacDevicePort |-> HostID(host), Ip |-> host.IP]

\* catalog objects: a link entity with its onos.topo.Link aspect, a relation
NoEntity == [Status |-> "none", LastChange |-> 0]
LinkAspect(status, lastChange) == [Status |-> status, LastChange |-> lastChange]
Relation(kind, src, tgt) == [kind |-> kind, src |-> src, tgt |-> tgt]
\* Delete of an entity removes the relations it is an end of
Cascade(rels, id) ==
  [r \in {x \in BagToSet(rels) : x.src # id /\ x.tgt # id} |-> rels[r]]
\* Create of a relation: a new object with an ID of its own
WithRelation(rels, rel) == rels (+) SetToBag({rel})
\* Query with a RelationFilter: the targets of the relations of a kind
Targets(src, kind) ==
  {r.tgt : r \in {x \in BagToSet(relations) : x.src = src /\ x.kind = kind}}
\* Entity.SrcRelationIDs of a port is not empty
IsSource(id) == \E r \in BagToSet(relations) : r.src = id

\* ------------------------------------------------------------- goroutines
\* the worker passing over a device, and the link monitor of its agent
Worker(d) == <<"w", d>>
Monitor(d) == <<"m", d>>
Threads == {Worker(d) : d \in Devices} \cup {Monitor(d) : d \in Devices}
NoId == ""
Idle == [pc |-> "idle", left |-> {}, devp |-> [n \in PortNums |-> 0],
         topop |-> [n \in PortNums |-> 0], port |-> 0, todo |-> <<>>,
         link |-> NoLink, status |-> "UP", obj |-> NoId, egressPortID |-> NoId,
         ingressPortID |-> NoId, fresh |-> TRUE,
         ret |-> "idle", report |-> {}, host |-> NoHost]
At(t, pc) == Alive /\ th[t].pc = pc
Go(t, r) == th' = [th EXCEPT ![t] = r]

\* bookkeeping of the pass in progress: a call returned an error, a mutation
\* was issued; base is the number of failed calls when the pass began
NoHist == [on |-> FALSE, prev |-> "none", failed |-> FALSE, mutated |-> FALSE,
           disturbed |-> FALSE, base |-> 0]
Note(failed, mutated) ==
  hist' = IF hist.on
            THEN [hist EXCEPT !.failed = @ \/ failed, !.mutated = @ \/ mutated]
            ELSE hist

\* a gNMI subscription response for state/link: a deletion or an update
NoEvent == [delete |-> FALSE, port |-> 0, link |-> NoLink]
\* something other than the pass in progress has acted
Disturb ==
  hist' = IF hist.on THEN [hist EXCEPT !.prev = "none", !.disturbed = TRUE]
          ELSE hist

\* the aspect of a port is a number: 0 is no port, an odd number a port whose
\* oper-status is UP, an even number a port whose oper-status is DOWN
PortStatus(v) == IF v % 2 = 1 THEN "UP" ELSE "DOWN"
\* port.Status = update.Val.GetStringVal()
WithStatus(v, status) ==
  IF v = 0 \/ PortStatus(v) = status THEN v ELSE v + 1

\* a gNMI update of the port-status subscription: the port and the leaf named
\* by its path, and its value
Leaves == {"oper-status", "last-change"}
NoUpdate == [port |-> 0, leaf |-> "none", val |-> "none"]

\* the interface names of a device: the keys of the ports map of GetPorts
IfNames == {"eth1", "eth2"}
IfName(n) == IF n = 1 THEN "eth1" ELSE "eth2"

\* deviceContext: no ports, no monitor (ctxCancel is nil).  ports holds the
\* ports of dc.ports and names their keys; starting counts the goroutines
\* started with go dc.monitorPortStatus() that have not run yet; monitor is
\* the state of the monitor whose cancel function dc.ctxCancel holds and subs
\* what it subscribed to; orphans counts the monitors that receive from their
\* stream and whose cancel function dc.ctxCancel holds no longer
NoContext == [ports |-> [n \in PortNums |-> 0], names |-> {}, ctxCancel |-> FALSE,
              monitor |-> "none", subs |-> {}, starting |-> 0, orphans |-> 0]

\* NewPortReconciler, NewLinkReconciler: empty maps; the catalog and the
\* devices as given
InitReconcilers(registered, catPorts, catRelations, dPorts, dLinks, track) ==
  /\ agentDevices = registered
  /\ pendingLinks = [a \in Agents \cup {""} |-> <<>>]
  /\ ports = catPorts
  /\ links = [l \in LinkIds |-> NoEntity]
  /\ relations = catRelations
  /\ devPorts = dPorts
  /\ devLinks = dLinks
  /\ acReport = [d \in Devices |-> NilReport]
  /\ evQ = [d \in Devices |-> NoEvent]
  /\ portQ = [d \in Devices |-> NoUpdate]
  /\ deviceContexts = [d \in Devices |-> NoContext]
  /\ hosts = [id \in HostIds |-> NoHostEntity]
  /\ devHosts = [d \in Devices |-> NoHosts]
  /\ devNames = [d \in Devices |-> [n \in PortNums |-> IfName(n)]]
  /\ events = 0
  /\ now = 1
  /\ th = [t \in Threads |-> Idle]
  /\ passes = [d \in Devices |-> 0]
  /\ hist = [NoHist EXCEPT !.on = track]

\* ------------------------------------------------ discover: DiscoverPorts
\* discover: the worker owns the device and calls DiscoverPorts
StartPass(d) ==
  /\ At(Worker(d), "idle") /\ passes[d] < MaxRuns
  /\ Go(Worker(d), [Idle EXCEPT !.pc = "pGet"])
  /\ UNCHANGED <<ctlVars, agentDevices, pendingLinks, ports, links, relations,
                 devPorts, devLinks, acReport, evQ, portQ, deviceContexts, events, now, passes, hist,
                 hosts, devHosts, devNames>>

\* DiscoverPorts: southbound.GetPorts answers
PortsGet(d) ==
  /\ At(Worker(d), "pGet")
  /\ Go(Worker(d), [th[Worker(d)] EXCEPT !.pc = "pQuery", !.devp = devPorts[d]])
  /\ UNCHANGED <<ctlVars, agentDevices, pendingLinks, ports, links, relations,
                 devPorts, devLinks, acReport, evQ, portQ, deviceContexts, events, now, passes, hist,
                 hosts, devHosts, devNames>>

\* DiscoverPorts: southbound.GetPorts fails, return
PortsGetFail(d) ==
  /\ At(Worker(d), "pGet") /\ MayFail /\ Fault
  /\ Go(Worker(d), [th[Worker(d)] EXCEPT !.pc = "lGet"])
  /\ Note(TRUE, FALSE)
  /\ UNCHANGED <<ctlRest, crashed, agentDevices, pendingLinks, ports, links,
                 relations, devPorts, devLinks, acReport, evQ, portQ, deviceContexts, events, now,
                 passes,
                 hosts, devHosts, devNames>>

\* getPorts: the port entities that are targets of the device's has relations
TopoPorts(d) ==
  [n \in PortNums |-> IF PortID(d, n) \in Targets(d, "has")
                        THEN ports[PortID(d, n)] ELSE 0]

\* DiscoverPorts: getPorts answers; the loop over devicePorts begins
PortsQuery(d) ==
  /\ At(Worker(d), "pQuery")
  /\ Go(Worker(d), [th[Worker(d)] EXCEPT
        !.pc = "pEach", !.topop = TopoPorts(d),
        !.left = {n \in PortNums : th[Worker(d)].devp[n] # 0}])
  /\ UNCHANGED <<ctlVars, agentDevices, pendingLinks, ports, links, relations,
                 devPorts, devLinks, acReport, evQ, portQ, deviceContexts, events, now, passes, hist,
                 hosts, devHosts, devNames>>

\* DiscoverPorts: getPorts fails, return
PortsQueryFail(d) ==
  /\ At(Worker(d), "pQuery") /\ MayFail /\ Fault
  /\ Go(Worker(d), [th[Worker(d)] EXCEPT !.pc = "lGet"])
  /\ Note(TRUE, FALSE)
  /\ UNCHANGED <<ctlRest, crashed, agentDevices, pendingLinks, ports, links,
                 relations, devPorts, devLinks, acReport, evQ, portQ, deviceContexts, events, now,
                 passes,
                 hosts, devHosts, devNames>>

\* createPort: Create of the port entity succeeds
PortCreate(d, n) ==
  LET w == th[Worker(d)] IN
  /\ At(Worker(d), "pEach") /\ n \in w.left /\ w.topop[n] = 0
  /\ ports[PortID(d, n)] = 0
  /\ ports' = [ports EXCEPT ![PortID(d, n)] = w.devp[n]]
  /\ Go(Worker(d), [w EXCEPT !.pc = "pHas", !.port = n, !.left = @ \ {n}])
  /\ Note(FALSE, TRUE)
  /\ UNCHANGED <<ctlVars, agentDevices, pendingLinks, links, relations,
                 devPorts, devLinks, acReport, evQ, portQ, deviceContexts, events, now, passes,
                 hosts, devHosts, devNames>>

\* createPort: Create of the port entity fails (it exists already, or the
\* call fails), return
PortCreateFail(d, n) ==
  LET w == th[Worker(d)] IN
  /\ At(Worker(d), "pEach") /\ n \in w.left /\ w.topop[n] = 0
  /\ \/ ports[PortID(d, n)] # 0 /\ UNCHANGED faults
     \/ ports[PortID(d, n)] = 0 /\ MayFail /\ Fault
  /\ Go(Worker(d), [w EXCEPT !.left = @ \ {n}])
  /\ Note(TRUE, TRUE)
  /\ UNCHANGED <<ctlRest, crashed, agentDevices, pendingLinks, ports, links,
                 relations, devPorts, devLinks, acReport, evQ, portQ, deviceContexts, events, now,
                 passes,
                 hosts, devHosts, devNames>>

\* createPort: Create of the has relation succeeds
PortHas(d) ==
  LET w == th[Worker(d)] IN
  /\ At(Worker(d), "pHas")
  /\ relations' = WithRelation(relations, Relation("has", d, PortID(d, w.port)))
  /\ Go(Worker(d), [w EXCEPT !.pc = "pEach", !.port = 0])
  /\ Note(FALSE, TRUE)
  /\ UNCHANGED <<ctlVars, agentDevices, pendingLinks, ports, links, devPorts,
                 devLinks, acReport, evQ, portQ, deviceContexts, events, now, passes,
                 hosts, devHosts, devNames>>

\* createPort: Create of the has relation fails, return
PortHasFail(d) ==
  LET w == th[Worker(d)] IN
  /\ At(Worker(d), "pHas") /\ MayFail /\ Fault
  /\ Go(Worker(d), [w EXCEPT !.pc = "pEach", !.port = 0])
  /\ Note(TRUE, TRUE)
  /\ UNCHANGED <<ctlRest, crashed, agentDevices, pendingLinks, ports, links,
                 relations, devPorts, devLinks, acReport, evQ, portQ, deviceContexts, events, now,
                 passes,
                 hosts, devHosts, devNames>>

\* a.LastChange != b.LastChange || a.Enabled != b.Enabled || a.Status != b.Status
\* a comparison that never sees a change
portStateChangedNever(a, b) == FALSE
portStateChanged(a, b) == a # b

\* updatePortIfNeeded: Update if the aspect differs, nothing otherwise
PortUpdate(d, n) ==
  LET w == th[Worker(d)] IN
  /\ At(Worker(d), "pEach") /\ n \in w.left /\ w.topop[n] # 0
  /\ IF portStateChanged(w.topop[n], w.devp[n])
       THEN /\ ports' = [ports EXCEPT ![PortID(d, n)] = w.devp[n]]
            /\ Note(FALSE, TRUE)
       ELSE UNCHANGED <<ports, hist>>
  /\ Go(Worker(d), [w EXCEPT !.left = @ \ {n}])
  /\ UNCHANGED <<ctlVars, agentDevices, pendingLinks, links, relations,
                 devPorts, devLinks, acReport, evQ, portQ, deviceContexts, events, now, passes,
                 hosts, devHosts, devNames>>

\* updatePortIfNeeded: the Update fails, return
PortUpdateFail(d, n) ==
  LET w == th[Worker(d)] IN
  /\ At(Worker(d), "pEach") /\ n \in w.left /\ w.topop[n] # 0
  /\ portStateChanged(w.topop[n], w.devp[n])
  /\ MayFail /\ Fault
  /\ Go(Worker(d), [w EXCEPT !.left = @ \ {n}])
  /\ Note(TRUE, TRUE)
  /\ UNCHANGED <<ctlRest, crashed, agentDevices, pendingLinks, ports, links,
                 relations, devPorts, devLinks, acReport, evQ, portQ, deviceContexts, events, now,
                 passes,
                 hosts, devHosts, devNames>>

\* DiscoverPorts: the loop over devicePorts is over; the loop over topoPorts
\* begins with the ports that are not in usedPortIDs
PortsUsed(d) ==
  LET w == th[Worker(d)] IN
  /\ At(Worker(d), "pEach") /\ w.left = {}
  /\ Go(Worker(d), [w EXCEPT
        !.pc = "pDel", !.left = {n \in PortNums : w.topop[n] # 0 /\ w.devp[n] = 0}])
  /\ UNCHANGED <<ctlVars, agentDevices, pendingLinks, ports, links, relations,
                 devPorts, devLinks, acReport, evQ, portQ, deviceContexts, events, now, passes, hist,
                 hosts, devHosts, devNames>>

\* deletePort: Delete succeeds
PortDelete(d, n) ==
  LET w == th[Worker(d)] IN
  /\ At(Worker(d), "pDel") /\ n \in w.left
  /\ ports' = [ports EXCEPT ![PortID(d, n)] = 0]
  /\ relations' = Cascade(relations, PortID(d, n))
  /\ Go(Worker(d), [w EXCEPT !.left = @ \ {n}])
  /\ Note(FALSE, TRUE)
  /\ UNCHANGED <<ctlVars, agentDevices, pendingLinks, links, devPorts,
                 devLinks, acReport, evQ, portQ, deviceContexts, events, now, passes,
                 hosts, devHosts, devNames>>

\* deletePort: Delete fails, return
PortDeleteFail(d, n) ==
  LET w == th[Worker(d)] IN
  /\ At(Worker(d), "pDel") /\ n \in w.left /\ MayFail /\ Fault
  /\ Go(Worker(d), [w EXCEPT !.left = @ \ {n}])
  /\ Note(TRUE, TRUE)
  /\ UNCHANGED <<ctlRest, crashed, agentDevices, pendingLinks, ports, links,
                 relations, devPorts, devLinks, acReport, evQ, portQ, deviceContexts, events, now,
                 passes,
                 hosts, devHosts, devNames>>

\* DiscoverPorts returns; discover calls DiscoverLinks
PortsDone(d) ==
  LET w == th[Worker(d)] IN
  /\ At(Worker(d), "pDel") /\ w.left = {}
  /\ Go(Worker(d), [w EXCEPT !.pc = "lGet"])
  /\ UNCHANGED <<ctlVars, agentDevices, pendingLinks, ports, links, relations,
                 devPorts, devLinks, acReport, evQ, portQ, deviceContexts, events, now, passes, hist,
                 hosts, devHosts, devNames>>

\* ------------------------------------------------ discover: DiscoverLinks
\* frame of the actions below that touch neither the catalog nor the maps
LocalFrame ==
  UNCHANGED <<ctlVars, agentDevices, pendingLinks, ports, links, relations,
              devPorts, devLinks, acReport, evQ, portQ, deviceContexts, events, now, passes, hist,
                 hosts, devHosts, devNames>>

\* discover: the worker owns the device and calls DiscoverLinks
StartLinks(d) ==
  /\ At(Worker(d), "idle") /\ passes[d] < MaxPasses
  /\ Go(Worker(d), [Idle EXCEPT !.pc = "lGet"])
  /\ LocalFrame

\* discover: the worker owns the device and calls DiscoverLinks, in a
\* behaviour of up to MaxRuns passes
StartLinksRun(d) ==
  /\ At(Worker(d), "idle") /\ passes[d] < MaxRuns
  /\ Go(Worker(d), [Idle EXCEPT !.pc = "lGet"])
  /\ LocalFrame

\* GetIngressLinks: the agent answers; the report replaces agentContext.report
\* under ac.lock, which the monitor holds while it runs a callback
LinksGet(d) ==
  /\ At(Worker(d), "lGet") /\ th[Monitor(d)].pc = "idle"
  /\ acReport' = [acReport EXCEPT ![d] = LinkReport(AgentID[d], devLinks[d])]
  /\ Go(Worker(d), [th[Worker(d)] EXCEPT !.pc = "lReg"])
  /\ UNCHANGED <<ctlVars, agentDevices, pendingLinks, ports, links, relations,
                 devPorts, devLinks, evQ, portQ, deviceContexts, events, now, passes, hist,
                 hosts, devHosts, devNames>>

\* DiscoverLinks: GetIngressLinks fails, return
LinksGetFail(d) ==
  /\ At(Worker(d), "lGet") /\ MayFail /\ Fault
  /\ Go(Worker(d), [th[Worker(d)] EXCEPT !.pc = "done"])
  /\ Note(TRUE, FALSE)
  /\ UNCHANGED <<ctlRest, crashed, agentDevices, pendingLinks, ports, links,
                 relations, devPorts, devLinks, acReport, evQ, portQ, deviceContexts, events, now,
                 passes,
                 hosts, devHosts, devNames>>

\* the links of a report, in the order the range over report.Links yields
PortOrder == <<1>>
ReportLinks(report) ==
  SelectSeq([i \in 1..Len(PortOrder) |-> report[PortOrder[i]]],
            LAMBDA l : l # NoLink)

\* a lookup that finds every agent
RegisteredAny(ad, a) == a \in Agents
\* _, ok := r.agentDevices[agentID]
Registered(ad, a) == a \in Agents /\ ad[a] # "none"
\* pendingLinks, ok := r.pendingLinks[report.AgentID]
\* a lookup that never finds a bucket
PendingForNone(a) == <<>>
PendingFor(a) == pendingLinks[a]
\* addToPendingLinks, for each link of a sequence
RECURSIVE AddAllToPending(_, _)
AddAllToPending(pl, ls) ==
  IF ls = <<>> THEN pl
  ELSE AddAllToPending(
         [pl EXCEPT ![Head(ls).EgressDevice] = Append(@, Head(ls))], Tail(ls))

\* a worker that leaves linksToProcess aside and turns to updateDownedLinks
BeginNone(r) ==
  [r EXCEPT !.pc = "prune", !.todo = <<>>, !.link = NoLink, !.obj = NoId,
            !.egressPortID = NoId, !.ingressPortID = NoId]
\* the worker turns to the next link of linksToProcess, or to updateDownedLinks
Begin(r) ==
  IF r.todo = <<>>
    THEN [r EXCEPT !.pc = "prune", !.link = NoLink, !.obj = NoId,
                   !.egressPortID = NoId, !.ingressPortID = NoId]
    ELSE [r EXCEPT !.pc = "resolve", !.link = Head(r.todo), !.todo = Tail(r.todo),
                   !.status = "UP", !.obj = NoId, !.egressPortID = NoId,
                   !.ingressPortID = NoId]
\* reconcileLink returns: to DiscoverLinks' loop, or out of the callback
Return(t, r) == IF t[1] = "w" THEN Begin(r) ELSE Idle

\* registerReport, under r.lock
registerReport(d) ==
  LET a == AgentID[d]
      ad == [agentDevices EXCEPT ![a] = d]
      all == ReportLinks(acReport[d].Links)
      now1 == SelectSeq(all, LAMBDA l : Registered(ad, l.EgressDevice))
      later == SelectSeq(all, LAMBDA l : ~Registered(ad, l.EgressDevice))
      parked == AddAllToPending(pendingLinks, later)
  IN
  /\ At(Worker(d), "lReg")
  /\ agentDevices' = ad
  /\ pendingLinks' = [parked EXCEPT ![a] = <<>>]
  /\ Go(Worker(d), Begin([th[Worker(d)] EXCEPT !.todo = now1 \o PendingFor(a)]))
  /\ UNCHANGED <<ctlVars, ports, links, relations, devPorts, devLinks,
                 acReport, evQ, portQ, deviceContexts, events, now, passes, hist,
                 hosts, devHosts, devNames>>

\* r.agentDevices[agentID], nil if absent
\* a lookup that answers for agents that have not been registered
ResolvedUnregistered(a) == IF a \in Agents THEN DeviceOf(a) ELSE "none"
Resolved(a) == IF a \in Agents THEN agentDevices[a] ELSE "none"

\* reconcileLink: resolveDevices under r.lock.RLock; without the ingress
\* device return, without the egress device go on to park the link
resolveDevices(t) ==
  LET r == th[t]
      ingressDevice == Resolved(r.link.IngressDevice)
      egressDevice == Resolved(r.link.EgressDevice)
  IN
  /\ At(t, "resolve")
  /\ Go(t, IF ingressDevice = "none" THEN Return(t, r)
           ELSE IF egressDevice = "none" THEN [r EXCEPT !.pc = "park"]
           ELSE [r EXCEPT !.pc = "get",
                  !.egressPortID = PortID(egressDevice, r.link.EgressPort),
                  !.ingressPortID = PortID(ingressDevice, r.link.IngressPort),
                  !.obj = LinkID(PortID(egressDevice, r.link.EgressPort),
                                 PortID(ingressDevice, r.link.IngressPort))])
  /\ LocalFrame

\* reconcileLink: addToPendingLinks under r.lock
addToPendingLinks(t) ==
  /\ At(t, "park")
  /\ pendingLinks' = AddAllToPending(pendingLinks, <<th[t].link>>)
  /\ Go(t, Return(t, th[t]))
  /\ UNCHANGED <<ctlVars, agentDevices, ports, links, relations, devPorts,
                 devLinks, acReport, evQ, portQ, deviceContexts, events, now, passes, hist,
                 hosts, devHosts, devNames>>

\* updateLinkIfNeeded: linkAspect.LastChange < link.CreateTime
\* a gate that also passes equal times
NeedsUpdateOrEqual(lastChange, createTime) == lastChange <= createTime
NeedsUpdate(lastChange, createTime) == lastChange < createTime

\* reconcileLink: Get answers; not found leads to createLink, found to
\* updateLinkIfNeeded, which returns if the stored LastChange is not older
GetLink(t) ==
  LET r == th[t] IN
  /\ At(t, "get")
  /\ Go(t, IF links[r.obj] = NoEntity THEN [r EXCEPT !.pc = "cEnt"]
           ELSE IF NeedsUpdate(links[r.obj].LastChange, r.link.CreateTime)
             THEN [r EXCEPT !.pc = "upd", !.fresh = TRUE]
           ELSE Return(t, r))
  /\ LocalFrame

\* reconcileLink: Get fails although the link is there; createLink is called
GetLinkFail(t) ==
  /\ At(t, "get") /\ links[th[t].obj] # NoEntity /\ MayFail /\ Fault
  /\ Go(t, [th[t] EXCEPT !.pc = "cEnt"])
  /\ Note(TRUE, FALSE)
  /\ UNCHANGED <<ctlRest, crashed, agentDevices, pendingLinks, ports, links,
                 relations, devPorts, devLinks, acReport, evQ, portQ, deviceContexts, events, now,
                 passes,
                 hosts, devHosts, devNames>>

\* an Update carries the revision of the object it was read with: once the
\* link has been written, the copies other goroutines hold are stale
Written(t, r, id) ==
  th' = [u \in Threads |->
           IF u = t THEN r
           ELSE IF th[u].obj = id THEN [th[u] EXCEPT !.fresh = FALSE]
           ELSE th[u]]

\* createLink: Create of the link entity succeeds, Status UP
CreateEntity(t) ==
  LET r == th[t] IN
  /\ At(t, "cEnt") /\ links[r.obj] = NoEntity
  /\ links' = [links EXCEPT ![r.obj] = LinkAspect("UP", r.link.CreateTime)]
  /\ Go(t, [r EXCEPT !.pc = "cOrig"])
  /\ Note(FALSE, TRUE)
  /\ UNCHANGED <<ctlVars, agentDevices, pendingLinks, ports, relations,
                 devPorts, devLinks, acReport, evQ, portQ, deviceContexts, events, now, passes,
                 hosts, devHosts, devNames>>

\* a createLink that takes the already-exists answer as a success and goes
\* on to the relations
CreateEntityExistsGoesOn(t) ==
  LET r == th[t] IN
  /\ At(t, "cEnt")
  /\ \/ links[r.obj] # NoEntity /\ UNCHANGED faults
        /\ Go(t, [r EXCEPT !.pc = "cOrig"])
     \/ links[r.obj] = NoEntity /\ MayFail /\ Fault
        /\ Go(t, Return(t, r))
  /\ Note(TRUE, TRUE)
  /\ UNCHANGED <<ctlRest, crashed, agentDevices, pendingLinks, ports, links,
                 relations, devPorts, devLinks, acReport, evQ, portQ,
                 deviceContexts, events, now, passes,
                 hosts, devHosts, devNames>>

\* createLink: Create of the link entity fails (it exists already, or the
\* call fails), return
CreateEntityFail(t) ==
  LET r == th[t] IN
  /\ At(t, "cEnt")
  /\ \/ links[r.obj] # NoEntity /\ UNCHANGED faults
     \/ links[r.obj] = NoEntity /\ MayFail /\ Fault
  /\ Go(t, Return(t, r))
  /\ Note(TRUE, TRUE)
  /\ UNCHANGED <<ctlRest, crashed, agentDevices, pendingLinks, ports, links,
                 relations, devPorts, devLinks, acReport, evQ, portQ, deviceContexts, events, now,
                 passes,
                 hosts, devHosts, devNames>>

\* createLink: Create of the originates relation (egress port -> link)
CreateOriginates(t) ==
  LET r == th[t] IN
  /\ At(t, "cOrig")
  /\ relations' = WithRelation(relations, Relation("originates", r.egressPortID, r.obj))
  /\ Go(t, [r EXCEPT !.pc = "cTerm"])
  /\ Note(FALSE, TRUE)
  /\ UNCHANGED <<ctlVars, agentDevices, pendingLinks, ports, links, devPorts,
                 devLinks, acReport, evQ, portQ, deviceContexts, events, now, passes,
                 hosts, devHosts, devNames>>

\* createLink: Create of the terminates relation (ingress port -> link)
CreateTerminates(t) ==
  LET r == th[t] IN
  /\ At(t, "cTerm")
  /\ relations' = WithRelation(relations, Relation("terminates", r.ingressPortID, r.obj))
  /\ Go(t, Return(t, r))
  /\ Note(FALSE, TRUE)
  /\ UNCHANGED <<ctlVars, agentDevices, pendingLinks, ports, links, devPorts,
                 devLinks, acReport, evQ, portQ, deviceContexts, events, now, passes,
                 hosts, devHosts, devNames>>

\* createLink: Create of a relation fails, return
CreateRelationFail(t) ==
  /\ Alive /\ th[t].pc \in {"cOrig", "cTerm"} /\ MayFail /\ Fault
  /\ Go(t, Return(t, th[t]))
  /\ Note(TRUE, TRUE)
  /\ UNCHANGED <<ctlRest, crashed, agentDevices, pendingLinks, ports, links,
                 relations, devPorts, devLinks, acReport, evQ, portQ, deviceContexts, events, now,
                 passes,
                 hosts, devHosts, devNames>>

\* updateLinkIfNeeded: Update with the status and the link's create-time
UpdateLink(t) ==
  LET r == th[t] IN
  /\ At(t, "upd") /\ r.fresh
  /\ links' = [links EXCEPT ![r.obj] = LinkAspect(r.status, r.link.CreateTime)]
  /\ Written(t, Return(t, r), r.obj)
  /\ Note(FALSE, TRUE)
  /\ UNCHANGED <<ctlVars, agentDevices, pendingLinks, ports, relations,
                 devPorts, devLinks, acReport, evQ, portQ, deviceContexts, events, now, passes,
                 hosts, devHosts, devNames>>

\* updateLinkIfNeeded: the Update fails (stale revision, or the call fails)
UpdateLinkFail(t) ==
  LET r == th[t] IN
  /\ At(t, "upd")
  /\ \/ ~r.fresh /\ UNCHANGED faults
     \/ r.fresh /\ MayFail /\ Fault
  /\ Go(t, Return(t, r))
  /\ Note(TRUE, TRUE)
  /\ UNCHANGED <<ctlRest, crashed, agentDevices, pendingLinks, ports, links,
                 relations, devPorts, devLinks, acReport, evQ, portQ, deviceContexts, events, now,
                 passes,
                 hosts, devHosts, devNames>>

\* updateDownedLinks: the ports of the device that are a source of relations
\* and have no link in the report
PrunePorts(d) ==
  {n \in PortNums : /\ PortID(d, n) \in Targets(d, "has")
                    /\ IsSource(PortID(d, n))
                    /\ acReport[d].Links[n] = NoLink}

\* updateDownedLinks: the port Query answers
PruneQuery(d) ==
  /\ At(Worker(d), "prune")
  /\ Go(Worker(d), [th[Worker(d)] EXCEPT !.pc = "pruneEach", !.left = PrunePorts(d)])
  /\ LocalFrame

\* updateDownedLinks, updateDownedIngressLink: the Query fails; the error is
\* logged, stream is nil and stream.Recv() panics
PrunePanic(d) ==
  /\ Alive
  /\ \/ th[Worker(d)].pc = "prune"
     \/ th[Worker(d)].pc = "pruneEach" /\ th[Worker(d)].left # {}
  /\ crashed' = TRUE
  /\ UNCHANGED <<ctlRest, faults, recVars>>

\* updateDownedIngressLink: no link terminates at the port, return
PruneNone(d, n) ==
  LET w == th[Worker(d)] IN
  /\ At(Worker(d), "pruneEach") /\ n \in w.left
  /\ Targets(PortID(d, n), "terminates") = {}
  /\ Go(Worker(d), [w EXCEPT !.left = @ \ {n}])
  /\ LocalFrame

\* updateDownedIngressLink: the first link the Query yields; if it is not
\* DOWN already it is to be marked DOWN
PruneLink(d, n) ==
  LET w == th[Worker(d)] IN
  /\ At(Worker(d), "pruneEach") /\ n \in w.left
  /\ \E l \in Targets(PortID(d, n), "terminates") :
       Go(Worker(d), IF links[l].Status # "DOWN"
                       THEN [w EXCEPT !.pc = "pruneU", !.left = @ \ {n},
                                      !.obj = l, !.fresh = TRUE]
                       ELSE [w EXCEPT !.left = @ \ {n}])
  /\ LocalFrame

\* updateDownedIngressLink: Update with Status DOWN and time.Now()
PruneUpdate(d) ==
  LET w == th[Worker(d)] IN
  /\ At(Worker(d), "pruneU") /\ w.fresh
  /\ links' = [links EXCEPT ![w.obj] = LinkAspect("DOWN", now)]
  /\ Written(Worker(d), [w EXCEPT !.pc = "pruneEach", !.obj = NoId], w.obj)
  /\ Note(FALSE, TRUE)
  /\ UNCHANGED <<ctlVars, agentDevices, pendingLinks, ports, relations,
                 devPorts, devLinks, acReport, evQ, portQ, deviceContexts, events, now, passes,
                 hosts, devHosts, devNames>>

\* updateDownedIngressLink: the Update fails (stale revision, or the call
\* fails), return
PruneUpdateFail(d) ==
  LET w == th[Worker(d)] IN
  /\ At(Worker(d), "pruneU")
  /\ \/ ~w.fresh /\ UNCHANGED faults
     \/ w.fresh /\ MayFail /\ Fault
  /\ Go(Worker(d), [w EXCEPT !.pc = "pruneEach", !.obj = NoId])
  /\ Note(TRUE, TRUE)
  /\ UNCHANGED <<ctlRest, crashed, agentDevices, pendingLinks, ports, links,
                 relations, devPorts, devLinks, acReport, evQ, portQ, deviceContexts, events, now,
                 passes,
                 hosts, devHosts, devNames>>

\* updateDownedLinks returns at the end of the stream
PruneDone(d) ==
  LET w == th[Worker(d)] IN
  /\ At(Worker(d), "pruneEach") /\ w.left = {}
  /\ Go(Worker(d), [w EXCEPT !.pc = "done"])
  /\ LocalFrame

\* discover: the pass is over, the device is released
PassEnd(d) ==
  /\ At(Worker(d), "done")
  /\ Go(Worker(d), Idle)
  /\ passes' = [passes EXCEPT ![d] = @ + 1]
  /\ hist' = IF hist.on
               THEN [hist EXCEPT !.prev = IF hist.disturbed THEN "none"
                                          ELSE IF hist.failed THEN "failed"
                                          ELSE "clean",
                                 !.failed = FALSE, !.mutated = FALSE,
                                 !.disturbed = FALSE, !.base = faults]
               ELSE hist
  /\ UNCHANGED <<ctlVars, agentDevices, pendingLinks, ports, links, relations,
                 devPorts, devLinks, acReport, evQ, portQ, deviceContexts, events, now,
                 hosts, devHosts, devNames>>

\* --------------------------------------------- link monitor and the devices
\* time passes on the controller's clock
Tick ==
  /\ Alive /\ now < MaxNow
  /\ now' = now + 1
  /\ UNCHANGED <<ctlVars, agentDevices, pendingLinks, ports, links, relations,
                 devPorts, devLinks, acReport, evQ, portQ, deviceContexts, events, th, passes, hist,
                 hosts, devHosts, devNames>>

\* the monitor of a device runs once its first report has been taken
Monitored(d) == acReport[d] # NilReport

\* the link at an ingress port of the device goes away; its agent sends a
\* delete to the monitor
DevLinkDown(d, n, notify) ==
  /\ Alive /\ evQ[d] = NoEvent
  /\ events < (IF notify THEN MaxNotices ELSE MaxEvents)
  /\ devLinks[d][n] # NoLink
  /\ devLinks' = [devLinks EXCEPT ![d][n] = NoLink]
  /\ evQ' = [evQ EXCEPT ![d] = IF notify /\ Monitored(d)
                                 THEN [delete |-> TRUE, port |-> n, link |-> NoLink]
                                 ELSE NoEvent]
  /\ events' = events + 1
  /\ Disturb
  /\ UNCHANGED <<ctlVars, agentDevices, pendingLinks, ports, links, relations,
                 devPorts, acReport, now, th, passes,
                 portQ, deviceContexts,
                 hosts, devHosts, devNames>>

\* a link appears at an ingress port of the device; its agent sends an update
DevLinkUp(d, l, notify) ==
  /\ Alive /\ evQ[d] = NoEvent
  /\ events < (IF notify THEN MaxNotices ELSE MaxEvents)
  /\ devLinks[d][l.IngressPort] = NoLink
  /\ devLinks' = [devLinks EXCEPT ![d][l.IngressPort] = l]
  /\ evQ' = [evQ EXCEPT ![d] = IF notify /\ Monitored(d)
                                 THEN [delete |-> FALSE, port |-> l.IngressPort,
                                       link |-> l]
                                 ELSE NoEvent]
  /\ events' = events + 1
  /\ Disturb
  /\ UNCHANGED <<ctlVars, agentDevices, pendingLinks, ports, links, relations,
                 devPorts, acReport, now, th, passes,
                 portQ, deviceContexts,
                 hosts, devHosts, devNames>>

\* the cable at an ingress port of the device is moved to another egress
\* port: the device reports another link at the port from now on
DevLinkMove(d, l) ==
  /\ Alive /\ events < MaxEvents
  /\ devLinks[d][l.IngressPort] # NoLink
  /\ devLinks[d][l.IngressPort].EgressPort # l.EgressPort
  /\ devLinks' = [devLinks EXCEPT ![d][l.IngressPort] = l]
  /\ events' = events + 1
  /\ Disturb
  /\ UNCHANGED <<ctlVars, agentDevices, pendingLinks, ports, links, relations,
                 devPorts, acReport, evQ, portQ, deviceContexts, now, th, passes,
                 hosts, devHosts, devNames>>

\* the state of a port of the device changes (0: the port is gone)
DevPortChange(d, n, v) ==
  /\ Alive /\ events < MaxEvents
  /\ devPorts[d][n] # v
  /\ devPorts' = [devPorts EXCEPT ![d][n] = v]
  /\ events' = events + 1
  /\ Disturb
  /\ UNCHANGED <<ctlVars, agentDevices, pendingLinks, ports, links, relations,
                 devLinks, acReport, evQ, portQ, deviceContexts, now, th, passes,
                 hosts, devHosts, devNames>>

\* getLink: the link of the report, or a new one with the ingress end only
getLink(d, report, port) ==
  IF report[port] # NoLink THEN report[port]
  ELSE Link(AgentID[d], port, "", 0, 0)

\* processLinkResponse, a deletion: the link leaves the report and LinkDeleted
\* stamps it with time.Now() and reconciles it as DOWN
LinkDeleted(d) ==
  /\ At(Monitor(d), "idle") /\ evQ[d] # NoEvent /\ evQ[d].delete
  /\ acReport' = [acReport EXCEPT ![d].Links[evQ[d].port] = NoLink]
  /\ evQ' = [evQ EXCEPT ![d] = NoEvent]
  /\ Go(Monitor(d), [Idle EXCEPT !.pc = "resolve", !.status = "DOWN",
        !.link = [getLink(d, acReport[d].Links, evQ[d].port) EXCEPT !.CreateTime = now]])
  /\ UNCHANGED <<ctlVars, agentDevices, pendingLinks, ports, links, relations,
                 devPorts, devLinks, events, now, passes, hist,
                 portQ, deviceContexts,
                 hosts, devHosts, devNames>>

\* processLinkResponse, an addition: the link enters the report and LinkAdded
\* reconciles it as UP
LinkAdded(d) ==
  /\ At(Monitor(d), "idle") /\ evQ[d] # NoEvent /\ ~evQ[d].delete
  /\ acReport' = [acReport EXCEPT ![d].Links[evQ[d].port] = evQ[d].link]
  /\ evQ' = [evQ EXCEPT ![d] = NoEvent]
  /\ Go(Monitor(d), [Idle EXCEPT !.pc = "resolve", !.status = "UP",
                                 !.link = evQ[d].link])
  /\ UNCHANGED <<ctlVars, agentDevices, pendingLinks, ports, links, relations,
                 devPorts, devLinks, events, now, passes, hist,
                 portQ, deviceContexts,
                 hosts, devHosts, devNames>>

\* ----------------------------------------------------- steps of part 2
PortOk(D) ==
  \E d \in D : \E n \in PortNums :
    \/ PortsGet(d) \/ PortsQuery(d) \/ PortCreate(d, n) \/ PortHas(d)
    \/ PortUpdate(d, n) \/ PortsUsed(d) \/ PortDelete(d, n) \/ PortsDone(d)
PortFail(D) ==
  \E d \in D : \E n \in PortNums :
    \/ PortsGetFail(d) \/ PortsQueryFail(d) \/ PortCreateFail(d, n)
    \/ PortHasFail(d) \/ PortUpdateFail(d, n) \/ PortDeleteFail(d, n)
LinkOk(D) ==
  \E d \in D :
    \/ LinksGet(d) \/ registerReport(d) \/ PruneQuery(d) \/ PruneDone(d)
    \/ PassEnd(d)
PruneSkip(D) == \E d \in D : \E n \in PortNums : PruneNone(d, n)
PruneDown(D) ==
  \E d \in D : \E n \in PortNums : PruneLink(d, n) \/ PruneUpdate(d)
ReconcileNew(T) ==
  \E t \in T :
    \/ resolveDevices(t) \/ GetLink(t) \/ CreateEntity(t)
    \/ CreateOriginates(t) \/ CreateTerminates(t)
ReconcilePark(T) == \E t \in T : addToPendingLinks(t)
ReconcileUpdate(T) == \E t \in T : UpdateLink(t)
LinkFail(D) ==
  \E d \in D :
    \/ LinksGetFail(d) \/ PruneUpdateFail(d)
    \/ \E t \in {Worker(d), Monitor(d)} :
         \/ GetLinkFail(t) \/ CreateEntityFail(t) \/ CreateRelationFail(t)
         \/ UpdateLinkFail(t)
LinkPanic(D) == \E d \in D : PrunePanic(d)
MonitorStep(D) == \E d \in D : LinkDeleted(d) \/ LinkAdded(d)
DeviceStep(D, notify) ==
  \E d \in D :
    \/ \E n \in PortNums : DevLinkDown(d, n, notify)
    \/ \E l \in DeviceLinks(d) : DevLinkUp(d, l, notify)
DevicePortStep(D) ==
  \E d \in D : \E n \in PortNums : \E v \in 0..MaxNow : DevPortChange(d, n, v)

\* the catalogs and devices the specifications start from
NoAgents == [a \in Agents |-> "none"]
NoPorts == [p \in PortIds |-> 0]
AllPorts == [p \in PortIds |-> 1]
AllHas == SetToBag({Relation("has", d, PortID(d, n)) : d \in Devices, n \in PortNums})
PortTables == [PortNums -> 0..MaxNow]
LinkTables(d) ==
  {ls \in [PortNums -> DeviceLinks(d) \cup {NoLink}] :
     \A n \in PortNums : ls[n] # NoLink => ls[n].IngressPort = n}
InitIdle ==
  InitReconcilers(NoAgents, NoPorts, EmptyBag, [d \in Devices |-> [n \in PortNums |-> 0]],
                  [d \in Devices |-> NoLinks], FALSE)

\* ----------------------------------------------------------- specifications
RunOk ==
  \/ RunDispatch \/ DialOk
  \/ SweepQueryOk \/ SweepRecv \/ SweepSend
  \/ WatchOk \/ SetMonitoring \/ PrepareCheck
  \/ WatchNeighborOk \/ SetMonitoringNeighbor
  \/ MonitorTickSweep \/ MonitorTickCheck

RunFail ==
  \/ DialFail \/ SweepQueryFail \/ SweepRecvFail \/ WatchFail \/ WatchNeighborFail

ReaderOk ==
  \E r \in ReaderKinds :
    \/ ReaderCheck(r) \/ ReaderEvent(r) \/ ReaderEventRemoved(r) \/ ReaderSend(r)

ReaderFail == \E r \in ReaderKinds : ReaderStreamError(r)

WorkerStep ==
  \E w \in WorkerKinds : Dequeue(w) \/ CheckBusy(w) \/ FinishWork(w)

WorkerStop == \E w \in WorkerKinds : WorkerExit(w)

WorkerFail == \E w \in WorkerKinds : WorkerLinksPanic(w)

ApiStep == AddPod \/ AddRack \/ AddSwitch \/ AddServerIPU

\* Spec: dispatch.  The controller with every realm device in the catalog,
\* the sweeps and both watch readers feeding the queues and the worker pools;
\* no call fails and Stop() is not called.
Init == InitController(Devices, WorkerCount, NeighborWorkerCount) /\ InitIdle
Next == RunOk \/ ReaderOk \/ WorkerStep
Spec == Init /\ [][Next]_vars

\* SpecLife: lifecycle.  One realm device and one worker per pool; catalog,
\* stream and southbound calls may fail, Stop() may be called at any time.
InitLife == InitController({"d1"}, 1, 1) /\ InitIdle
NextLife ==
  \/ RunOk \/ RunFail \/ ReaderOk \/ ReaderFail
  \/ WorkerStep \/ WorkerStop \/ WorkerFail \/ Stop
SpecLife == InitLife /\ [][NextLife]_vars

\* LiveSpec: SpecLife without Stop(), with the scheduling the Go runtime
\* gives: every goroutine that can take a step eventually takes one (WF), a
\* sender blocked on a full channel is woken in FIFO order, so it is not
\* overtaken forever (SF); the steps that fail are not forced.
NextLive ==
  \/ RunOk \/ RunFail \/ ReaderOk \/ ReaderFail \/ WorkerStep \/ WorkerFail
Fairness ==
  /\ WF_vars(RunOk)
  /\ SF_vars(SweepSend)
  /\ WF_vars(WorkerStep)
LiveSpec == InitLife /\ [][NextLive]_vars /\ Fairness

\* SpecApi: the northbound seeding calls against the lifecycle: run(), the
\* workers draining the sweeps, the watch readers up to a stream failure, and
\* Stop(); watch events are left out, they do not touch the state the calls
\* read.
ReaderLife == \E r \in ReaderKinds : ReaderCheck(r) \/ ReaderStreamError(r)
NextApi ==
  \/ RunOk \/ RunFail \/ ReaderLife \/ WorkerStep \/ WorkerStop \/ Stop
  \/ ApiStep
SpecApi == InitLife /\ [][NextApi]_vars

\* SpecMesh: the workers of the two devices run DiscoverLinks, each reporting
\* what its agent sees; no call fails, nothing changes on the devices
InitMesh ==
  /\ InitController(Devices, WorkerCount, NeighborWorkerCount)
  /\ \E l1 \in LinkTables("d1") : \E l2 \in LinkTables("d2") :
       InitReconcilers(NoAgents, AllPorts, AllHas,
                       [d \in Devices |-> [n \in PortNums |-> 1]],
                       [d \in Devices |-> IF d = "d1" THEN l1 ELSE l2], FALSE)
StartMesh == \E d \in Devices : StartLinks(d)
NextMesh ==
  \/ StartMesh \/ LinkOk(Devices) \/ PruneSkip(Devices)
  \/ ReconcileNew({Worker(d) : d \in Devices})
SpecMesh == InitMesh /\ [][NextMesh]_vars

\* the devices whose links come and go in SpecLinks
MonitoredDevices == {"d1"}
\* SpecLinks: SpecMesh with failing calls, the controller's clock, links
\* that come and go on the devices, and the link monitors' callbacks
NextLinks ==
  \/ StartMesh \/ LinkOk(Devices) \/ PruneSkip(Devices) \/ PruneDown(Devices)
  \/ ReconcileNew(Threads) \/ ReconcilePark(Threads) \/ ReconcileUpdate(Threads)
  \/ LinkFail(Devices) \/ LinkPanic(Devices)
  \/ MonitorStep(MonitoredDevices) \/ DeviceStep(MonitoredDevices, TRUE) \/ Tick
SpecLinks == InitMesh /\ [][NextLinks]_vars

\* SpecPass: consecutive passes (DiscoverPorts, DiscoverLinks) of the worker
\* over d1, starting from an empty catalog, with failing calls; between the
\* passes the ports and links of d1 may change.  The agent of d2 may have
\* been registered before.
PassDevices == {"d1"}
InitPass ==
  /\ InitController(Devices, WorkerCount, NeighborWorkerCount)
  /\ \E reg \in {NoAgents, [NoAgents EXCEPT !["a2"] = "d2"]} :
     \E p1 \in PortTables : \E l1 \in LinkTables("d1") :
       InitReconcilers(reg, NoPorts, EmptyBag,
                       [d \in Devices |-> IF d = "d1" THEN p1 ELSE [n \in PortNums |-> 0]],
                       [d \in Devices |-> IF d = "d1" THEN l1 ELSE NoLinks], TRUE)
StartRun == \E d \in PassDevices : StartPass(d)
NextPass ==
  \/ StartRun \/ PortOk(PassDevices) \/ PortFail(PassDevices)
  \/ LinkOk(PassDevices) \/ PruneDown(PassDevices)
  \/ ReconcileNew({Worker(d) : d \in PassDevices})
  \/ ReconcileUpdate({Worker(d) : d \in PassDevices})
  \/ LinkFail(PassDevices) \/ LinkPanic(PassDevices)
  \/ DeviceStep(PassDevices, FALSE) \/ DevicePortStep(PassDevices) \/ Tick
SpecPass == InitPass /\ [][NextPass]_vars

\* SpecPrune: consecutive DiscoverLinks passes of the worker over d1, whose
\* ports are in the catalog and whose ingress link comes, goes and is moved
\* between egress ports of d2 (agent registered); calls may fail.
InitPrune ==
  /\ InitController(Devices, WorkerCount, NeighborWorkerCount)
  /\ \E l1 \in LinkTables("d1") :
       InitReconcilers([NoAgents EXCEPT !["a2"] = "d2"], AllPorts, AllHas,
                       [d \in Devices |-> [n \in PortNums |-> 1]],
                       [d \in Devices |-> IF d = "d1" THEN l1 ELSE NoLinks], TRUE)
DeviceMoveStep(D) ==
  \E d \in D : \E l \in DeviceLinksFrom(d, EgressPortNums) : DevLinkMove(d, l)
NextPrune ==
  \/ \E d \in PassDevices : StartLinksRun(d)
  \/ LinkOk(PassDevices) \/ PruneDown(PassDevices)
  \/ ReconcileNew({Worker(d) : d \in PassDevices})
  \/ ReconcileUpdate({Worker(d) : d \in PassDevices})
  \/ LinkFail(PassDevices) \/ LinkPanic(PassDevices)
  \/ DeviceStep(PassDevices, FALSE) \/ DeviceMoveStep(PassDevices) \/ Tick
SpecPrune == InitPrune /\ [][NextPrune]_vars

\* ------------------------------------------------------------------ claims
\* number of workers of pool q that own id (between the marking of
\* workingOn and its release)
Owners(q, id) ==
  IF [q |-> q, pc |-> "work", obj |-> id] \in WorkerKinds
    THEN workers[[q |-> q, pc |-> "work", obj |-> id]]
    ELSE 0

\* C1: for every device ID at most one worker goroutine (discover or
\* discoverNeighbor) is between acquiring and releasing that ID in workingOn,
\* and workingOn holds exactly the IDs that are owned.
C1_OneWorkerPerDevice ==
  \A id \in Devices \cup NeighborDevices :
    /\ Owners("realm", id) + Owners("neighbor", id) <= 1
    /\ (id \in workingOn) <=> (Owners("realm", id) + Owners("neighbor", id) = 1)

\* C1 witness: a worker owns d1 while another worker has dequeued d1 too
C1_Witness ==
  /\ workers[[q |-> "realm", pc |-> "work", obj |-> "d1"]] = 1
  /\ workers[[q |-> "realm", pc |-> "chk", obj |-> "d1"]] = 1

\* C8: every change of the lifecycle state follows one of the edges
\* Disconnected->Connected, Connected->Initialized, Initialized->Monitoring,
\* {Connected, Initialized, Monitoring}->Disconnected, any->Stopped.
Edges ==
  {<<"Disconnected", "Connected">>, <<"Connected", "Initialized">>,
   <<"Initialized", "Monitoring">>, <<"Connected", "Disconnected">>,
   <<"Initialized", "Disconnected">>, <<"Monitoring", "Disconnected">>}
    \cup {<<s, "Stopped">> : s \in States}
C8_LifecycleEdges == [][state' # state => <<state, state'>> \in Edges]_vars

\* the watch stream failed while the controller was Monitoring: the state is
\* Disconnected while run() is still inside monitorTopologyChanges
WatchFailedDrop == state = "Disconnected" /\ runPc = "monSel"

\* C9: after the watch stream fails while Monitoring (and Stop is not
\* called, and the catalog answers again), the controller eventually reaches
\* Monitoring again; the claim's passage through Connected and Initialized
\* is implied by the edges run() takes on the way.
C9_ReturnsToMonitoring == WatchFailedDrop ~> state = "Monitoring"

\* C10: a seeding call made while the state is not Monitoring returns
\* Unavailable and issues no catalog Create.
C10_UnavailableUnlessMonitoring ==
  [][ApiStep /\ state # "Monitoring"
       => apiCall'.res = "Unavailable" /\ apiCall'.creates = 0]_vars

\* C10 witness: AddServerIPU was refused
C10_Witness ==
  /\ apiCall = [op |-> "AddServerIPU", res |-> "Unavailable", creates |-> 0]
  /\ state = "Initialized"

\* the ports a reported link leaves and enters
EgressPortOf(l) == PortID(DeviceOf(l.EgressDevice), l.EgressPort)
IngressPortOf(l) == PortID(DeviceOf(l.IngressDevice), l.IngressPort)
\* the links the devices report
ReportedLinks ==
  {devLinks[d][n] : d \in Devices, n \in PortNums} \ {NoLink}
\* the link entity id exists with exactly one originates relation, from port
\* e, and exactly one terminates relation, from port i
LinkWithRelations(id, e, i) ==
  /\ links[id] # NoEntity
  /\ CopiesIn(Relation("originates", e, id), relations) = 1
  /\ CopiesIn(Relation("terminates", i, id), relations) = 1
  /\ \A r \in BagToSet(relations) :
       r.tgt = id => r \in {Relation("originates", e, id),
                            Relation("terminates", i, id)}

\* what C2 promises of the catalog: every link either device reports exists
\* as one link entity with the ID <egressPort>-<ingressPort>, with one
\* originates and one terminates relation, and there are as many link
\* entities as reported links
MeshInCatalog ==
  /\ \A l \in ReportedLinks :
       LinkWithRelations(LinkID(EgressPortOf(l), IngressPortOf(l)),
                         EgressPortOf(l), IngressPortOf(l))
  /\ Cardinality({id \in LinkIds : links[id] # NoEntity})
       = Cardinality(ReportedLinks)

\* C2 as stated: once DiscoverLinks has completed once for each of the two
\* devices (in either order or concurrently, no call failing), every reported
\* link is in the catalog with its two relations.
C2_MeshLinks == (\A d \in Devices : passes[d] >= 1) => MeshInCatalog

\* C2, amended: ... and no further DiscoverLinks is running at that moment.
C2_MeshLinksAtRest ==
  (\A d \in Devices : passes[d] >= 1 /\ th[Worker(d)].pc = "idle")
    => MeshInCatalog

\* C2 witness: both passes are over and each device reports a link from the
\* other
C2_Witness ==
  /\ \A d \in Devices :
       passes[d] = 1 /\ devLinks[d][1] # NoLink /\ th[Worker(d)].pc = "idle"
  /\ Cardinality({id \in LinkIds : links[id] # NoEntity}) = 2

\* C3: a link entity is created only by a reconcileLink whose link has both
\* its ingress and its egress agent ID in agentDevices, and registerReport
\* parks every reported link whose egress agent is not registered, creating
\* nothing.
C3_CreatedOnlyIfResolved ==
  [][/\ \A id \in LinkIds :
          links[id] = NoEntity /\ links'[id] # NoEntity =>
            \E t \in Threads :
              /\ th[t].obj = id
              /\ agentDevices[th[t].link.IngressDevice] # "none"
              /\ agentDevices[th[t].link.EgressDevice] # "none"
     /\ \A d \in Devices :
          registerReport(d) =>
            /\ links' = links
            /\ \A n \in PortNums :
                 LET l == acReport[d].Links[n] IN
                 l # NoLink /\ agentDevices[l.EgressDevice] = "none" =>
                   /\ \E i \in 1..Len(pendingLinks'[l.EgressDevice]) :
                        pendingLinks'[l.EgressDevice][i] = l
                   /\ \A i \in 1..Len(th'[Worker(d)].todo) :
                        th'[Worker(d)].todo[i] # l
                   /\ th'[Worker(d)].link # l]_vars

\* C3 witness: the link d1 reports from d2 is parked, d2's agent is not
\* registered and the link has no entity
C3_Witness ==
  /\ agentDevices["a1"] = "d1" /\ agentDevices["a2"] = "none"
  /\ Len(pendingLinks["a2"]) = 1
  /\ links[LinkID(PortID("d2", 1), PortID("d1", 1))] = NoEntity
  /\ th[Worker("d1")].pc = "done"

\* createLink is running in some goroutine
CreateLinkInProgress == \E t \in Threads : th[t].pc \in {"cEnt", "cOrig", "cTerm"}

\* C4: whenever no createLink is in progress, every link entity has exactly
\* one originates and one terminates relation, and its ID is
\* <originates.source>-<terminates.source>.
C4_LinkRelations ==
  ~CreateLinkInProgress =>
    \A id \in LinkIds :
      links[id] # NoEntity =>
        \E e \in EgressPortIds : \E i \in PortIds :
          id = LinkID(e, i) /\ LinkWithRelations(id, e, i)

\* createPort is running (deletePort is a single Delete)
CreatePortInProgress == \E d \in Devices : th[Worker(d)].pc = "pHas"

\* C5: whenever no createPort or deletePort is in progress, every port
\* entity has exactly one has relation, and its source is the port's device.
C5_PortHasRelation ==
  ~CreatePortInProgress =>
    \A d \in Devices : \A n \in PortNums :
      ports[PortID(d, n)] # 0 =>
        /\ CopiesIn(Relation("has", d, PortID(d, n)), relations) = 1
        /\ \A r \in BagToSet(relations) :
             r.kind = "has" /\ r.tgt = PortID(d, n) => r.src = d

\* C6: the stored LastChange of a link entity never decreases, whoever
\* writes it.
C6_LastChangeMonotone ==
  [][\A id \in LinkIds :
       links[id] # NoEntity => links'[id].LastChange >= links[id].LastChange]_vars

C11_DuplicateDropped ==
  [][\A w \in WorkerKinds :
       (/\ w.pc = "chk" /\ workers[w] > 0 /\ w.obj \in workingOn
        /\ workers'[w] = workers[w] - 1)
         => /\ workers' = Move(workers, w, IdleWorker(w.q))
            /\ workingOn' = workingOn
            /\ realmQueue' = realmQueue
            /\ neighborRealmQueue' = neighborRealmQueue]_vars

\* C11 witness: a worker owns d1 and is still at work, the other worker has
\* dequeued d1 and is about to test workingOn, and d1 is queued once more
C11_Witness ==
  /\ workers[[q |-> "realm", pc |-> "work", obj |-> "d1"]] = 1
  /\ workers[[q |-> "realm", pc |-> "chk", obj |-> "d1"]] = 1
  /\ workingOn = {"d1"}
  /\ realmQueue = <<"d1">>

\* no call of the pass in progress has failed (an already-exists answer to
\* a Create is not counted as a failure here)
NoCallFailed == hist.on /\ faults = hist.base

\* C12: when a DiscoverPorts pass over d1 that follows an earlier pass ends
\* with no failed call, every port the device reported in it that has an
\* entity in the catalog also has its has relation from the device; so an
\* entity that an earlier pass left without the relation has got it.
C12_PortRelationConverges ==
  \A n \in PortNums :
    (/\ th[Worker("d1")].pc = "lGet" /\ passes["d1"] >= 1 /\ NoCallFailed
     /\ th[Worker("d1")].devp[n] # 0
     /\ ports[PortID("d1", n)] # 0)
      => CopiesIn(Relation("has", "d1", PortID("d1", n)), relations) >= 1

\* C13: when a pass over d1 that follows an earlier pass ends with no failed
\* call, every link of its report whose agents are both registered and that
\* has an entity in the catalog has its originates and its terminates
\* relation; so an entity that an earlier createLink left without a relation
\* has got both.
C13_LinkRelationsConverge ==
  \A n \in PortNums :
    LET l == acReport["d1"].Links[n] IN
    (/\ th[Worker("d1")].pc = "done" /\ passes["d1"] >= 1 /\ NoCallFailed
     /\ l # NoLink
     /\ Resolved(l.IngressDevice) # "none" /\ Resolved(l.EgressDevice) # "none"
     /\ links[LinkID(EgressPortOf(l), IngressPortOf(l))] # NoEntity)
      => LinkWithRelations(LinkID(EgressPortOf(l), IngressPortOf(l)),
                           EgressPortOf(l), IngressPortOf(l))

\* the devices whose agents answer every call with an error
Unreachable == {"d1"}
Reachable == Devices \ Unreachable

\* DiscoverPorts: southbound.GetPorts returns an error, return
PortsGetError(d) ==
  /\ At(Worker(d), "pGet")
  /\ Go(Worker(d), [th[Worker(d)] EXCEPT !.pc = "lGet"])
  /\ Note(TRUE, FALSE)
  /\ UNCHANGED <<ctlVars, agentDevices, pendingLinks, ports, links, relations,
                 devPorts, devLinks, acReport, evQ, portQ, deviceContexts,
                 events, now, passes,
                 hosts, devHosts, devNames>>

\* DiscoverLinks: GetIngressLinks returns an error, return
\* a DiscoverLinks that logs the error and goes on to updateDownedLinks
LinksGetErrorLogged(d) ==
  /\ At(Worker(d), "lGet")
  /\ Go(Worker(d), [th[Worker(d)] EXCEPT !.pc = "prune"])
  /\ Note(TRUE, FALSE)
  /\ UNCHANGED <<ctlVars, agentDevices, pendingLinks, ports, links, relations,
                 devPorts, devLinks, acReport, evQ, portQ, deviceContexts,
                 events, now, passes,
                 hosts, devHosts, devNames>>
LinksGetError(d) ==
  /\ At(Worker(d), "lGet")
  /\ Go(Worker(d), [th[Worker(d)] EXCEPT !.pc = "done"])
  /\ Note(TRUE, FALSE)
  /\ UNCHANGED <<ctlVars, agentDevices, pendingLinks, ports, links, relations,
                 devPorts, devLinks, acReport, evQ, portQ, deviceContexts,
                 events, now, passes,
                 hosts, devHosts, devNames>>

\* discover: one worker of the pool takes the next device when the pass
\* before has returned
StartNext(d) ==
  /\ \A e \in Devices : th[Worker(e)].pc = "idle"
  /\ StartPass(d)

\* LiveErrors: one worker reconciles d1, whose every call returns an error,
\* and d2, whose calls succeed and whose ports change; the worker is fair.
InitErrors ==
  /\ InitController(Devices, WorkerCount, NeighborWorkerCount)
  /\ InitReconcilers(NoAgents, NoPorts, EmptyBag,
                     [d \in Devices |-> [n \in PortNums |-> 1]],
                     [d \in Devices |-> NoLinks], FALSE)
ErrorsPass ==
  \/ \E d \in Devices : StartNext(d)
  \/ \E d \in Unreachable : PortsGetError(d) \/ LinksGetError(d) \/ PassEnd(d)
  \/ PortOk(Reachable) \/ LinkOk(Reachable)
NextErrors == ErrorsPass \/ DevicePortStep(Reachable)
LiveErrors == InitErrors /\ [][NextErrors]_vars /\ WF_vars(ErrorsPass)

\* C14: when every call made for device d1 returns an error, the other
\* device is still reconciled: from any moment at which the worker is in a
\* pass over d1 and d2 has not been reconciled yet, the pass over d1
\* returns and a pass over d2 completes.
C14_ErrorsDoNotStall ==
  (th[Worker("d1")].pc # "idle" /\ passes["d2"] = 0) ~> (passes["d2"] >= 1)

\* d1 had a pass that made nothing of its port, d2 has its port entity
C14_Witness ==
  /\ passes["d1"] >= 1 /\ passes["d2"] >= 1
  /\ devPorts["d1"][1] # 0 /\ ports[PortID("d1", 1)] = 0
  /\ ports[PortID("d2", 1)] # 0

\* C15: a device whose worker has crashed in the middle of its pass does not
\* stay in workingOn forever (so that the copy the next periodic sweep
\* enqueues is reconciled and not dropped as busy).
C15_CrashDoesNotWedge ==
  ("d1" \in workingOn /\ crashed) ~> ("d1" \notin workingOn)

\* LiveStop: the lifecycle with Stop() and with every reconciler call
\* returning (no worker panics), under the scheduling of LiveSpec; a worker
\* whose range loop can end, ends it.
NextStop ==
  \/ RunOk \/ RunFail \/ ReaderOk \/ ReaderFail
  \/ WorkerStep \/ WorkerStop \/ Stop
FairnessStop == Fairness /\ WF_vars(WorkerStop)
LiveStop == InitLife /\ [][NextStop]_vars /\ FairnessStop

\* every discover goroutine has left its range loop
WorkersExited ==
  \A w \in WorkerKinds : w.q = "realm" /\ w.pc # "exit" => workers[w] = 0

\* C16: once Stop() has closed the dispatch channel, every discovery worker
\* eventually leaves its loop (after the objects still in the channel have
\* been dequeued and their passes have returned).
C16_WorkersExitAfterStop == closed ~> WorkersExited

C18_DeleteMarksDown ==
  [][\A d \in Devices :
       LET r == th[Monitor(d)] IN
       (/\ r.status = "DOWN"
        /\ r.pc = "get" \/ (r.pc = "upd" /\ r.fresh)
        /\ links[r.obj] # NoEntity
        /\ links[r.obj].LastChange # r.link.CreateTime
        /\ th'[Monitor(d)].pc = "idle" /\ faults' = faults)
         => links'[r.obj].Status = "DOWN"]_vars

\* the ingress port number of the link entity id of device d, 0 if none
IngressPortNum(d, id) ==
  IF \E n \in PortNums : id \in Targets(PortID(d, n), "terminates")
    THEN CHOOSE n \in PortNums : id \in Targets(PortID(d, n), "terminates")
    ELSE 0

\* at the end of a DiscoverLinks pass over d1 in which no call returned an
\* error, every link entity that terminates at a port of d1 without an entry
\* in the report is still in the catalog and is DOWN
PrunedAtEnd ==
  (th[Worker("d1")].pc = "done" /\ hist.on /\ ~hist.failed) =>
    \A n \in PortNums :
      acReport["d1"].Links[n] = NoLink =>
        \A id \in Targets(PortID("d1", n), "terminates") :
          links[id] # NoEntity /\ links[id].Status = "DOWN"

\* C19: after a failure-free DiscoverLinks pass over d1 every catalog link
\* terminating at a port of d1 that has no entry in the report of the pass
\* is DOWN and still exists, and the pass turns DOWN no link whose ingress
\* port has an entry in the report.
C19_PruneUnreported ==
  [][/\ PrunedAtEnd'
     /\ \A id \in LinkIds :
          (/\ th[Worker("d1")].pc = "pruneU"
           /\ links[id].Status # "DOWN" /\ links'[id].Status = "DOWN")
            => /\ IngressPortNum("d1", id) # 0
               /\ acReport["d1"].Links[IngressPortNum("d1", id)] = NoLink]_vars


\* ------------------------------------------ port discovery with a monitor
\* len(dc.ports), len(ports)
PortCount(names) == Cardinality(names)
\* the keys of the ports map GetPorts builds from the device's answer
PortNames(d) == {devNames[d][n] : n \in {m \in PortNums : devPorts[d][m] # 0}}

\* deviceContext.stopMonitor: cancel the context dc.ctxCancel belongs to,
\* whose monitor returns from Recv, and forget it
stopMonitor(dc) ==
  IF dc.ctxCancel
    THEN [dc EXCEPT !.ctxCancel = FALSE, !.monitor = "none", !.subs = {}]
    ELSE dc
\* deviceContext.startMonitor(restart), restart := len(dc.ports) != len(ports)
startMonitor(dc, names) ==
  ~dc.ctxCancel \/ PortCount(dc.names) # PortCount(names)

\* gNMIPortDiscovery.GetPorts: the device answers; the ports replace dc.ports
\* and startMonitor stops the monitor and starts the goroutine of a new one
\* if dc.ctxCancel is nil or the number of ports changed
GetPorts(d) ==
  LET dc == deviceContexts[d]
      names == PortNames(d)
      next == [dc EXCEPT !.ports = devPorts[d], !.names = names] IN
  /\ At(Worker(d), "pGet")
  /\ Go(Worker(d), [th[Worker(d)] EXCEPT !.pc = "pQuery", !.devp = devPorts[d]])
  /\ deviceContexts' = [deviceContexts EXCEPT ![d] =
       IF startMonitor(dc, names)
         THEN [stopMonitor(next) EXCEPT !.starting = @ + 1]
         ELSE next]
  /\ UNCHANGED <<ctlVars, agentDevices, pendingLinks, ports, links, relations,
                 devPorts, devLinks, acReport, evQ, portQ, events, now,
                 passes, hist,
                 hosts, devHosts, devNames>>

\* monitorPortStatus, up to the subscription: the goroutine takes a context
\* of its own, overwriting dc.ctxCancel, and subscribes to the keys dc.ports
\* has by now; a monitor whose cancel function is overwritten goes on
MonitorBegin(d) ==
  LET dc == deviceContexts[d] IN
  /\ Alive /\ dc.starting > 0
  /\ deviceContexts' = [deviceContexts EXCEPT ![d] =
       [dc EXCEPT !.starting = @ - 1,
                  !.orphans = IF dc.monitor = "run" THEN @ + 1 ELSE @,
                  !.ctxCancel = TRUE, !.monitor = "run", !.subs = dc.names]]
  /\ UNCHANGED <<ctlVars, agentDevices, pendingLinks, ports, links, relations,
                 devPorts, devLinks, acReport, evQ, portQ, events, now, th,
                 passes, hist, hosts, devHosts, devNames>>

\* the interface behind a port of the device is replaced by one of another
\* name
DevPortRename(d, n, name) ==
  /\ Alive /\ events < MaxEvents
  /\ devPorts[d][n] # 0 /\ devNames[d][n] # name
  /\ devNames' = [devNames EXCEPT ![d][n] = name]
  /\ events' = events + 1
  /\ Disturb
  /\ UNCHANGED <<ctlVars, agentDevices, pendingLinks, ports, links, relations,
                 devPorts, devLinks, acReport, evQ, portQ, deviceContexts, now,
                 th, passes, hosts, devHosts>>

\* the oper-status of a port of the device changes; the device sends the
\* update on the subscription that covers the port
DevPortStatus(d, n, status) ==
  LET dc == deviceContexts[d]
      sent == dc.monitor = "run" /\ devNames[d][n] \in dc.subs IN
  /\ Alive /\ events < MaxEvents
  /\ devPorts[d][n] # 0 /\ PortStatus(devPorts[d][n]) # status
  /\ sent => portQ[d] = NoUpdate
  /\ devPorts' = [devPorts EXCEPT ![d][n] = WithStatus(@, status)]
  /\ portQ' = IF sent
                THEN [portQ EXCEPT ![d] = [port |-> n, leaf |-> "oper-status",
                                           val |-> status]]
                ELSE portQ
  /\ events' = events + 1
  /\ Disturb
  /\ UNCHANGED <<ctlVars, agentDevices, pendingLinks, ports, links, relations,
                 devLinks, acReport, evQ, deviceContexts, now, th, passes,
                 hosts, devHosts, devNames>>

\* the device sends an update of another leaf of a subscribed port
DevPortOther(d, n) ==
  LET dc == deviceContexts[d] IN
  /\ Alive /\ events < MaxEvents
  /\ dc.monitor = "run" /\ devNames[d][n] \in dc.subs /\ portQ[d] = NoUpdate
  /\ portQ' = [portQ EXCEPT ![d] = [port |-> n, leaf |-> "last-change",
                                    val |-> "none"]]
  /\ events' = events + 1
  /\ UNCHANGED <<ctlVars, agentDevices, pendingLinks, ports, links, relations,
                 devPorts, devLinks, acReport, evQ, deviceContexts, now, th,
                 passes, hist,
                 hosts, devHosts, devNames>>

\* update.Path.Elem[len-1].Name == "oper-status"
\* a monitor that routes no update to the listener
RoutedNever(u) == FALSE
Routed(u) == u.leaf = "oper-status"

\* PortStatusListener.HandlePortStatus: the aspect of the port entity of the
\* device is rewritten with the port handed over; there is nothing to
\* rewrite if the catalog has no such port entity
HandlePortStatus(d, n, port) ==
  ports' = IF port # 0 /\ ports[PortID(d, n)] # 0
             THEN [ports EXCEPT ![PortID(d, n)] = port]
             ELSE ports

\* monitorPortStatus: stream.Recv returns an update; an oper-status update
\* sets the Status of the port of dc.ports (made by getPort if it is not
\* there) and hands the port to the listener.  The port is the one GetPorts
\* returned to a pass in progress, which reads it without synchronisation:
\* the pass sees the new Status or not.
monitorPortStatus(d, ok) ==
  LET dc == deviceContexts[d]
      u == portQ[d]
      w == th[Worker(d)]
      port == WithStatus(dc.ports[u.port], u.val) IN
  /\ Alive /\ dc.monitor = "run" /\ u # NoUpdate
  /\ portQ' = [portQ EXCEPT ![d] = NoUpdate]
  /\ IF Routed(u)
       THEN /\ deviceContexts' = [deviceContexts EXCEPT ![d].ports[u.port] = port]
            /\ \E seen \in BOOLEAN :
                 th' = IF seen /\ w.pc # "idle" /\ w.devp[u.port] # 0
                         THEN [th EXCEPT ![Worker(d)].devp[u.port] = port]
                         ELSE th
            /\ IF ok THEN HandlePortStatus(d, u.port, port) /\ UNCHANGED faults
                     ELSE MayFail /\ Fault /\ UNCHANGED ports
       ELSE ok /\ UNCHANGED <<deviceContexts, th, ports, faults>>
  /\ UNCHANGED <<ctlRest, crashed, agentDevices, pendingLinks, links, relations,
                 devPorts, devLinks, acReport, evQ, events, now, passes, hist,
                 hosts, devHosts, devNames>>

\* monitorPortStatus: stream.Recv returns an error, the monitor returns
PortStreamEnd(d) ==
  /\ Alive /\ deviceContexts[d].monitor = "run" /\ MayFail /\ Fault
  /\ deviceContexts' = [deviceContexts EXCEPT ![d].monitor = "ended"]
  /\ UNCHANGED <<ctlRest, crashed, agentDevices, pendingLinks, ports, links,
                 relations, devPorts, devLinks, acReport, evQ, portQ, events,
                 now, th, passes, hist,
                 hosts, devHosts, devNames>>

\* SpecPortStatus: consecutive passes of the worker over d1, whose ports are
\* UP at first and change their oper-status; DiscoverPorts takes the ports
\* from gNMIPortDiscovery.GetPorts with the reconciler as the listener.
InitPortStatus ==
  /\ InitController(Devices, WorkerCount, NeighborWorkerCount)
  /\ InitReconcilers(NoAgents, NoPorts, EmptyBag,
                     [d \in Devices |-> [n \in PortNums |-> IF d = "d1" THEN 1 ELSE 0]],
                     [d \in Devices |-> NoLinks], FALSE)
PortPass(D) ==
  \E d \in D : \E n \in PortNums :
    \/ GetPorts(d) \/ PortsQuery(d) \/ PortCreate(d, n) \/ PortHas(d)
    \/ PortUpdate(d, n) \/ PortsUsed(d) \/ PortsDone(d)
PortMonitor(D) ==
  \E d \in D : \/ MonitorBegin(d)
               \/ monitorPortStatus(d, TRUE) \/ monitorPortStatus(d, FALSE)
               \/ PortStreamEnd(d)
PortDevice(D) ==
  \E d \in D : \E n \in PortNums :
    \/ \E status \in {"UP", "DOWN"} : DevPortStatus(d, n, status)
    \/ DevPortOther(d, n)
    \/ \E name \in IfNames : DevPortRename(d, n, name)
NextPortStatus ==
  \/ StartRun \/ PortPass(PassDevices)
  \/ LinkOk(PassDevices)
  \/ PortMonitor(PassDevices) \/ PortDevice(PassDevices)
SpecPortStatus == InitPortStatus /\ [][NextPortStatus]_vars

C21_ReportedAgainIsUp ==
  [][\A t \in Threads :
       LET r == th[t] IN
       (/\ r.status = "UP"
        /\ r.pc = "get" \/ (r.pc = "upd" /\ r.fresh)
        /\ links[r.obj] # NoEntity /\ links[r.obj].Status = "DOWN"
        /\ th'[t] # r /\ th'[t].pc # "upd" /\ faults' = faults)
         => links'[r.obj].Status = "UP"]_vars

HostFrame ==
  UNCHANGED <<ctlRest, crashed, agentDevices, pendingLinks, ports, links,
              devPorts, devLinks, acReport, evQ, portQ, deviceContexts,
              devHosts, devNames, events, now, passes>>

\* discover: the worker owns the device and calls DiscoverHosts
StartHosts(d) ==
  /\ At(Worker(d), "idle") /\ passes[d] < MaxRuns
  /\ Go(Worker(d), [Idle EXCEPT !.pc = "hGet"])
  /\ UNCHANGED <<faults, hosts, relations, hist>>
  /\ HostFrame

\* DiscoverHosts: GetHosts answers with the report of the host agent
HostsGet(d) ==
  /\ At(Worker(d), "hGet")
  /\ Go(Worker(d), [th[Worker(d)] EXCEPT !.pc = "hEach",
                                          !.report = ReportedHosts(devHosts[d])])
  /\ UNCHANGED <<faults, hosts, relations, hist>>
  /\ HostFrame

\* DiscoverHosts: GetHosts returns an error, return
HostsGetFail(d) ==
  /\ At(Worker(d), "hGet") /\ MayFail /\ Fault
  /\ Go(Worker(d), [th[Worker(d)] EXCEPT !.pc = "done"])
  /\ Note(TRUE, FALSE)
  /\ UNCHANGED <<hosts, relations>>
  /\ HostFrame

\* reconcileHost of the next host of the report: Get of the host ID; found,
\* nothing is done; not found, createHost
reconcileHost(d, host) ==
  LET w == th[Worker(d)] IN
  /\ At(Worker(d), "hEach") /\ host \in w.report
  /\ Go(Worker(d), IF hosts[HostID(host)] # NoHostEntity
                     THEN [w EXCEPT !.report = @ \ {host}]
                     ELSE [w EXCEPT !.report = @ \ {host}, !.pc = "hEnt",
                                    !.host = host, !.obj = HostID(host)])
  /\ UNCHANGED <<faults, hosts, relations, hist>>
  /\ HostFrame

\* reconcileHost: Get fails although the host is there; createHost is called
reconcileHostFail(d, host) ==
  LET w == th[Worker(d)] IN
  /\ At(Worker(d), "hEach") /\ host \in w.report
  /\ hosts[HostID(host)] # NoHostEntity /\ MayFail /\ Fault
  /\ Go(Worker(d), [w EXCEPT !.report = @ \ {host}, !.pc = "hEnt",
                             !.host = host, !.obj = HostID(host)])
  /\ Note(TRUE, FALSE)
  /\ UNCHANGED <<hosts, relations>>
  /\ HostFrame

\* createHost: Create of the host entity with its NetworkInterface aspect
createHost(d) ==
  LET w == th[Worker(d)] IN
  /\ At(Worker(d), "hEnt") /\ hosts[w.obj] = NoHostEntity
  /\ hosts' = [hosts EXCEPT ![w.obj] = NetworkInterface(w.host)]
  /\ Go(Worker(d), [w EXCEPT !.pc = "hRel"])
  /\ Note(FALSE, TRUE)
  /\ UNCHANGED <<faults, relations>>
  /\ HostFrame

\* createHost: Create of the host entity fails (it exists already, or the
\* call fails), return
createHostFail(d) ==
  LET w == th[Worker(d)] IN
  /\ At(Worker(d), "hEnt")
  /\ \/ hosts[w.obj] # NoHostEntity /\ UNCHANGED faults
     \/ hosts[w.obj] = NoHostEntity /\ MayFail /\ Fault
  /\ Go(Worker(d), [w EXCEPT !.pc = "hEach", !.host = NoHost, !.obj = NoId])
  /\ Note(TRUE, TRUE)
  /\ UNCHANGED <<hosts, relations>>
  /\ HostFrame

\* portID := topo.ID(strconv.FormatUint(uint64(host.Port), 10))
\* the ID of the port entity of the device the host is attached to
HostPortOfDevice(d, host) == PortID(d, host.Port)
HostPortID(d, host) == ToString(host.Port)

\* createHost: Create of the originates relation (portID -> host).  The
\* catalog either stores the relation or answers with an error because its
\* source is no object; the error is logged
createOriginates(d, stored) ==
  LET w == th[Worker(d)] IN
  /\ At(Worker(d), "hRel")
  /\ relations' =
       IF stored
         THEN WithRelation(relations,
                           Relation("originates", HostPortID(d, w.host), w.obj))
         ELSE relations
  /\ Go(Worker(d), [w EXCEPT !.pc = "hEach", !.host = NoHost, !.obj = NoId])
  /\ Note(~stored, TRUE)
  /\ UNCHANGED <<faults, hosts>>
  /\ HostFrame

\* DiscoverHosts: every host of the report has been reconciled
HostsDone(d) ==
  /\ At(Worker(d), "hEach") /\ th[Worker(d)].report = {}
  /\ Go(Worker(d), [th[Worker(d)] EXCEPT !.pc = "done"])
  /\ UNCHANGED <<faults, hosts, relations, hist>>
  /\ HostFrame

\* a host appears on a port of the device, or leaves
DevHostChange(d, m, n) ==
  /\ Alive /\ events < MaxEvents
  /\ devHosts[d][m] # n
  /\ devHosts' = [devHosts EXCEPT ![d][m] = n]
  /\ events' = events + 1
  /\ Disturb
  /\ UNCHANGED <<ctlVars, agentDevices, pendingLinks, ports, links, relations,
                 devPorts, devLinks, acReport, evQ, portQ, deviceContexts,
                 hosts, devNames, now, th, passes>>

\* SpecHosts: consecutive DiscoverHosts passes of the worker over d1, whose
\* ports are in the catalog, while hosts come and go; calls may fail.
InitHosts ==
  /\ InitController(Devices, WorkerCount, NeighborWorkerCount)
  /\ InitReconcilers(NoAgents, AllPorts, AllHas,
                     [d \in Devices |-> [n \in PortNums |-> 1]],
                     [d \in Devices |-> NoLinks], TRUE)
HostOk(D) ==
  \E d \in D :
    \/ StartHosts(d) \/ HostsGet(d) \/ createHost(d) \/ HostsDone(d)
    \/ PassEnd(d)
    \/ \E host \in AllHosts : reconcileHost(d, host)
    \/ \E stored \in BOOLEAN : createOriginates(d, stored)
HostFail(D) ==
  \E d \in D :
    \/ HostsGetFail(d) \/ createHostFail(d)
    \/ \E host \in AllHosts : reconcileHostFail(d, host)
DeviceHostStep(D) ==
  \E d \in D : \E m \in Macs : \E n \in PortNums \cup {0} : DevHostChange(d, m, n)
NextHosts == HostOk(PassDevices) \/ HostFail(PassDevices) \/ DeviceHostStep(PassDevices)
SpecHosts == InitHosts /\ [][NextHosts]_vars

\* C23: at the end of a DiscoverHosts pass over d1 in which no call returned
\* an error, for every host of the report the catalog has a host entity with
\* the identifier <agentID>/<port>/<MAC>, whose aspect carries the host's MAC
\* and IP, and an originates relation from the port entity the host is
\* attached to to that host entity.
C23_HostInCatalog ==
  LET w == th[Worker("d1")] IN
  (w.pc = "done" /\ hist.on /\ ~hist.failed /\ ~hist.disturbed) =>
    \A host \in ReportedHosts(devHosts["d1"]) :
      LET id == AgentHostID(AgentID["d1"], host) IN
      /\ hosts[id] = NetworkInterface(host)
      /\ CopiesIn(Relation("originates", HostPortOfDevice("d1", host), id),
                  relations) >= 1


\* the links of a report as a set, and how often a link occurs in a sequence
LinksOf(report) == {report[n] : n \in PortNums} \ {NoLink}
Occurs(ls, l) == Cardinality({i \in 1..Len(ls) : ls[i] = l})
\* what registerReport returned to DiscoverLinks, which has taken its head
Returned(r) == IF r.link = NoLink THEN r.todo ELSE <<r.link>> \o r.todo

\* C24: registerReport(device, report) binds agentDevices[report.AgentID] to
\* the device and changes no other binding; it returns exactly the report's
\* links whose egress agent is then registered together with the links that
\* were parked under report.AgentID, empties that bucket, appends every
\* report link whose egress agent is not registered to the bucket of that
\* egress agent, and leaves every other bucket as it was.
C24_RegisterReport ==
  [][\A d \in Devices :
       LET a == AgentID[d]
           t == Worker(d)
           reported == LinksOf(acReport[d].Links)
           known == {l \in reported : agentDevices'[l.EgressDevice] # "none"}
           all == UNION {DeviceLinks(e) : e \in Devices}
       IN
       (th[t].pc = "lReg" /\ th'[t].pc # "lReg") =>
         /\ agentDevices' = [agentDevices EXCEPT ![a] = d]
         /\ \A l \in all :
              Occurs(Returned(th'[t]), l) =
                (IF l \in known THEN 1 ELSE 0) + Occurs(pendingLinks[a], l)
         /\ pendingLinks'[a] = <<>>
         /\ \A b \in Agents \ {a} : \A l \in all :
              Occurs(pendingLinks'[b], l) =
                Occurs(pendingLinks[b], l)
                  + (IF l \in reported \ known /\ l.EgressDevice = b THEN 1 ELSE 0)]_vars

\* C24 witness: d2's registerReport has returned its own link, whose egress
\* agent a1 is registered, and the link that d1 had parked under a2
C24_Witness ==
  LET r == th[Worker("d2")] IN
  /\ r.pc = "resolve" /\ Len(r.todo) = 1
  /\ r.link.IngressDevice = "a2" /\ r.todo[1].IngressDevice = "a1"
  /\ pendingLinks["a2"] = <<>>
  /\ agentDevices = [a \in Agents |-> DeviceOf(a)]


\* C25: while the controller is Connected, a full discovery sweep that
\* returns an error (the catalog Query fails, or a read of its stream fails)
\* sets the state back to Disconnected.
C25_SweepErrorDisconnects ==
  [][(/\ state = "Connected"
      /\ runPc \in {"sweepQ", "sweepRecv"}
      /\ faults' = faults + 1
      /\ runPc' = "loop")
       => state' = "Disconnected"]_vars

\* C26: a full discovery sweep in progress whose loop test finds the state
\* to be neither Monitoring nor Connected ends there: it receives and
\* enqueues no further query result.
C26_SweepStopsEarly ==
  [][(/\ runPc = "sweepRecv"
      /\ state \notin {"Monitoring", "Connected"}
      /\ runPc' # runPc)
       => runPc' = "loop"]_vars


\* SpecMonitors: SpecPortStatus with Stop() called at any time
NextMonitors == NextPortStatus \/ Stop
SpecMonitors == InitPortStatus /\ [][NextMonitors]_vars

\* C27: a port discovery pass tears down the port-status subscription of the
\* device and starts a new one if and only if the set of port identifiers it
\* obtained differs from the set of the pass before or the device context
\* holds no subscription; a monitor that subscribes covers exactly the
\* ports of the latest pass.
C27_RestartOnChange ==
  [][\A d \in Devices :
       LET dc == deviceContexts[d]
           dc2 == deviceContexts'[d] IN
       /\ (th[Worker(d)].pc = "pGet" /\ th'[Worker(d)].pc = "pQuery") =>
            /\ dc2.names = PortNames(d)
            /\ (dc2.starting = dc.starting + 1 /\ ~dc2.ctxCancel)
                 <=> (~dc.ctxCancel \/ dc.names # PortNames(d))
       /\ dc2.starting < dc.starting => dc2.subs = dc.names]_vars

\* the monitors of a device context that receive from a subscription
Subscribed(dc) == (IF dc.monitor = "run" THEN 1 ELSE 0) + dc.orphans

\* C28: at any time at most one port-status monitor of a device receives
\* from a subscription: a monitor is started only after the one before it
\* has been cancelled.
C28_OneMonitor == \A d \in Devices : Subscribed(deviceContexts[d]) <= 1

\* C29: when Stop() returns, no port-status monitor of any device is left
\* with a context that has not been cancelled.
C29_StopCancels ==
  [][(~closed /\ closed') =>
       \A d \in Devices :
         Subscribed(deviceContexts'[d]) + deviceContexts'[d].starting = 0]_vars


\* ------------------------------------------- discoverNeighbor: RegisterAgent
\* a RegisterAgent that also takes the links parked for the agent
RegisterAgentDrains(d) ==
  /\ Alive /\ th[Worker(d)].pc = "idle"
  /\ agentDevices' = [agentDevices EXCEPT ![AgentID[d]] = d]
  /\ pendingLinks' = [pendingLinks EXCEPT ![AgentID[d]] = <<>>]
  /\ UNCHANGED <<ctlVars, ports, links, relations, devPorts, devLinks,
                 acReport, evQ, portQ, deviceContexts, hosts, devHosts,
                 devNames, events, now, th, passes, hist>>
\* LinkReconciler.RegisterAgent: GetIngressLinks(object, nil) answers with
\* the agent ID alone (no listener: no Get of state/link, no report stored,
\* no startMonitor), then r.agentDevices[report.AgentID] = object under
\* r.lock
RegisterAgent(d) ==
  /\ Alive /\ th[Worker(d)].pc = "idle"
  /\ agentDevices' = [agentDevices EXCEPT ![AgentID[d]] = d]
  /\ UNCHANGED <<ctlVars, pendingLinks, ports, links, relations, devPorts,
                 devLinks, acReport, evQ, portQ, deviceContexts, hosts,
                 devHosts, devNames, events, now, th, passes, hist>>

\* RegisterAgent: GetIngressLinks fails (no LocalAgents aspect, no connection
\* or no agent ID), log and return
RegisterAgentFail(d) ==
  /\ Alive /\ th[Worker(d)].pc = "idle" /\ MayFail /\ Fault
  /\ UNCHANGED <<ctlRest, crashed, recVars>>

\* SpecNeighbor: d1 is a device of the realm, whose worker runs DiscoverLinks;
\* d2 is a device of the neighbor realm, whose worker runs RegisterAgent
RealmDevices == {"d1"}
NeighborRealm == {"d2"}
NeighborStep(D) == \E d \in D : RegisterAgent(d) \/ RegisterAgentFail(d)
NextNeighbor ==
  \/ (\E d \in RealmDevices : StartLinks(d))
  \/ LinkOk(RealmDevices)
  \/ ReconcileNew({Worker(d) : d \in RealmDevices})
  \/ NeighborStep(NeighborRealm)
SpecNeighbor == InitMesh /\ [][NextNeighbor]_vars

\* C30: RegisterAgent for a device of the neighbor realm binds the device to
\* its agent ID in agentDevices and changes nothing else: no other binding,
\* no parked link, no stored link report, no monitor or subscription, no
\* object of the catalog.
C30_RegisterAgentFrame ==
  [][(th' = th /\ agentDevices' # agentDevices) =>
       /\ \E d \in NeighborRealm :
            agentDevices' = [agentDevices EXCEPT ![AgentID[d]] = d]
       /\ UNCHANGED <<pendingLinks, acReport, evQ, portQ, deviceContexts,
                      ports, links, relations, hosts>>]_vars

\* C30 witness: d1 has parked the link it reported from d2, and RegisterAgent
\* has bound d2 afterwards: the link is still parked and has no entity
C30_Witness ==
  /\ agentDevices = [a \in Agents |-> DeviceOf(a)]
  /\ Len(pendingLinks["a2"]) = 1
  /\ acReport["d2"] = NilReport
  /\ \A id \in LinkIds : links[id] = NoEntity
  /\ th[Worker("d1")].pc = "idle" /\ passes["d1"] = 1


\* the link d1 reports on its port 1, NoLink if none
CrossLink == devLinks["d1"][1]

\* C31: d1, of the realm, reports an ingress link from d2, of the neighbor
\* realm.  Once d2 is bound by RegisterAgent and a DiscoverLinks pass over d1
\* has begun after that and ended with no call failing, the link entity
\* between d2's port and d1's port is in the catalog with its two relations,
\* whether d1 reported first or d2 was registered first.  Each pass that found
\* d2 unbound has parked the link once, so more passes than parked copies
\* means that a pass found d2 bound.
C31_CrossRealmLink ==
  (/\ faults = 0 /\ CrossLink # NoLink
   /\ th[Worker("d1")].pc = "idle"
   /\ agentDevices["a2"] = "d2"
   /\ passes["d1"] > Len(pendingLinks["a2"]))
    => LinkWithRelations(LinkID(EgressPortOf(CrossLink), IngressPortOf(CrossLink)),
                         EgressPortOf(CrossLink), IngressPortOf(CrossLink))

\* C31 witness: d1 reported first and the link was parked, d2 was registered
\* afterwards, and the second pass over d1 has made the link entity
C31_Witness ==
  /\ faults = 0 /\ CrossLink # NoLink
  /\ th[Worker("d1")].pc = "idle" /\ passes["d1"] = 2
  /\ Len(pendingLinks["a2"]) = 1
  /\ agentDevices["a2"] = "d2" /\ acReport["d2"] = NilReport
  /\ links[LinkID(EgressPortOf(CrossLink), IngressPortOf(CrossLink))] # NoEntity


\* C32: a reconcileLink whose link has an ingress agent that is not in
\* agentDevices returns having changed neither the catalog nor pendingLinks;
\* one whose ingress agent is bound and whose egress agent is not appends
\* the link to the bucket of the egress agent, changes nothing in the
\* catalog and returns.
C32_DropOrPark ==
  [][\A t \in Threads :
       LET r == th[t]
           noIngress == agentDevices[r.link.IngressDevice] = "none"
           noEgress == r.link.EgressDevice \notin Agents
                         \/ agentDevices[r.link.EgressDevice] = "none" IN
       /\ (r.pc = "resolve" /\ th'[t] # r /\ noIngress) =>
            /\ th'[t] = Return(t, r)
            /\ UNCHANGED <<pendingLinks, ports, links, relations>>
       /\ (r.pc = "resolve" /\ th'[t] # r /\ ~noIngress /\ noEgress) =>
            /\ th'[t].pc = "park" /\ th'[t].link = r.link
            /\ UNCHANGED <<pendingLinks, ports, links, relations>>
       /\ (r.pc = "park" /\ th'[t] # r) =>
            /\ th'[t] = Return(t, r)
            /\ pendingLinks' = [pendingLinks EXCEPT ![r.link.EgressDevice] =
                                  Append(@, r.link)]
            /\ UNCHANGED <<ports, links, relations>>]_vars

\* C32 witness: the monitor of d1 has parked a link it was told of, whose
\* egress agent is not bound, and no link entity has been made
C32_Witness ==
  /\ th[Monitor("d1")].pc = "idle" /\ th[Worker("d1")].pc = "idle"
  /\ passes["d1"] = 1 /\ agentDevices["a1"] = "d1" /\ agentDevices["a2"] = "none"
  /\ Len(pendingLinks["a2"]) = 2
  /\ \A id \in LinkIds : links[id] = NoEntity


\* C33: when the port-status monitor of a device has returned because its
\* stream ended and no new one is on its way, the next port discovery pass
\* over the device starts a new monitor.
C33_RestartAfterStreamEnd ==
  [][\A d \in Devices :
       LET dc == deviceContexts[d] IN
       (/\ th[Worker(d)].pc = "pGet" /\ th'[Worker(d)].pc = "pQuery"
        /\ dc.monitor = "ended" /\ dc.starting = 0)
         => deviceContexts'[d].starting = 1]_vars


\* C34: once the state is Stopped no step changes it: not run(), not the
\* connect, sweep or watch-setup steps, not a watch reader.
C34_StoppedAbsorbing == [][state = "Stopped" => state' = "Stopped"]_vars

\* C35: no goroutine sends on the dispatch channel after Stop() has closed
\* it.  In LiveStop no worker panics, so the process ends by a panic only
\* when the sweep or a watch reader sends on the closed channel.
C35_NoSendOnClosed == closed => ~crashed


\* C36: whenever the state is Monitoring, the reader goroutine that the
\* watch setup started for the realm is still in its loop.  In Spec no call
\* fails and Stop() is not called, so the state never leaves Monitoring.
C36_ReaderAlive ==
  state = "Monitoring" => \E r \in ReaderKinds : r.q = "realm" /\ readers[r] > 0


\* C37: whenever no registerReport, RegisterAgent or reconcileLink is in
\* progress, no link is parked under an agent ID that is bound in
\* agentDevices.
C37_ParkedOnlyForUnbound ==
  (\A t \in Threads : th[t].pc = "idle") =>
    \A a \in Agents : agentDevices[a] # "none" => pendingLinks[a] = <<>>


\* C38: in every bucket of pendingLinks each link, told by its ingress agent
\* and ingress port, occurs at most once, however often its device is swept.
C38_ParkedOnce ==
  \A a \in Agents : \A i, j \in 1..Len(pendingLinks[a]) :
    (/\ pendingLinks[a][i].IngressDevice = pendingLinks[a][j].IngressDevice
     /\ pendingLinks[a][i].IngressPort = pendingLinks[a][j].IngressPort) => i = j


\* C39: a reconcileLink that LinkDeleted began (status DOWN) and that finds
\* no entity for the link in the catalog creates no link entity with status
\* UP for it.
C39_DeleteCreatesNoUp ==
  [][\A t \in Threads :
       LET r == th[t] IN
       (/\ r.status = "DOWN" /\ r.pc \in {"get", "cEnt"}
        /\ links[r.obj] = NoEntity /\ th'[t] # r)
         => links'[r.obj].Status # "UP"]_vars


\* C40: at the end of a DiscoverLinks pass over d1 in which no call returned
\* an error, every link entity that terminates at a port of d1 and has status
\* UP is the link the report of the pass holds for that port; a link stored
\* earlier that comes from another egress port is DOWN.
C40_OneUpLinkPerPort ==
  (th[Worker("d1")].pc = "done" /\ hist.on /\ ~hist.failed) =>
    \A n \in PortNums :
      LET l == acReport["d1"].Links[n] IN
      \A id \in Targets(PortID("d1", n), "terminates") :
        links[id].Status = "UP" =>
          l # NoLink /\ id = LinkID(EgressPortOf(l), IngressPortOf(l))

====
